---------------------------- MODULE Spec2Model ----------------------------
(***************************************************************************)
(* TeamCoherenceMonitor (src/teamcoherencemonitor.py) as a state machine.  *)
(*                                                                         *)
(* Encoding of Python values:                                              *)
(*   - str          : a sequence of one-character strings, <<"F","G">>     *)
(*   - Optional[T]  : None is <<>>, a present value x is <<x>>             *)
(*   - datetime     : whole seconds since the monitor was constructed      *)
(*   - float        : an exact rational <<numerator, denominator>> in      *)
(*                    lowest terms; the inputs are integer valued          *)
(*   - dict         : a function (the mapping) and a sequence of its keys  *)
(*                    (the insertion order that iteration follows)         *)
(*   - object identity of an Alert : the field id, allocated from next_id  *)
(***************************************************************************)
EXTENDS Integers, Sequences, FiniteSets, TLC

VARIABLES
    agents,         \* TeamCoherenceMonitor.agents: key -> AgentStatus
    agent_keys,     \* insertion order of the keys of agents
    thresholds,     \* the Thresholds shared by the scorer and the alert system
    active_alerts,  \* AlertSystem.active_alerts
    alert_history,  \* AlertSystem.alert_history
    snapshots,      \* TeamCoherenceMonitor.snapshots
    now,            \* the clock read by datetime.now()
    next_id,        \* number of Alert objects created so far
    call,           \* the last call made on the monitor, with what it returned
    peak,           \* per key, the highest value of each counter that get_agent
                    \* could have shown since construction or the last reset()
    ops             \* number of steps taken so far

vars == <<ops, agents, agent_keys, thresholds, active_alerts, alert_history,
          snapshots, now, next_id, peak, call>>

---------------------------------------------------------------------------
(* Bounds of the model *)

MaxOps == 3

MaxSteps == 5

MaxOverflow == 3

MaxBatches == 4

BatchLen == 500

MaxCritical == 8

(* Program constants *)

MAX_LATENCIES == 100

MAX_HISTORY == 1000

MAX_SNAPSHOTS == 1000

ACTIVE_WINDOW == 3600

---------------------------------------------------------------------------
(* Optional values *)

None == <<>>

Some(x) == <<x>>

(* Rational arithmetic standing for Python's float arithmetic *)

Abs(x) == IF x < 0 THEN -x ELSE x

Min(a, b) == IF a < b THEN a ELSE b

RECURSIVE GCD(_, _)
GCD(a, b) == IF b = 0 THEN a ELSE GCD(b, a % b)

Rat(n, d) ==
    LET s == IF d < 0 THEN -1 ELSE 1
        g == GCD(Abs(n), Abs(d))
    IN  <<(s * n) \div g, (s * d) \div g>>

FromInt(i) == <<i, 1>>

RAdd(a, b) == Rat(a[1] * b[2] + b[1] * a[2], a[2] * b[2])

RSub(a, b) == Rat(a[1] * b[2] - b[1] * a[2], a[2] * b[2])

RMul(a, b) == Rat(a[1] * b[1], a[2] * b[2])

RDiv(a, b) == Rat(a[1] * b[2], a[2] * b[1])

RLess(a, b) == a[1] * b[2] < b[1] * a[2]

RLeq(a, b) == a[1] * b[2] <= b[1] * a[2]

RMax(a, b) == IF RLess(a, b) THEN b ELSE a

RMin(a, b) == IF RLess(a, b) THEN a ELSE b

(* round(x, digits) with scale = 10^digits: the nearest multiple of
   1/scale, a tie going to the even one *)
RoundTo(x, scale) ==
    LET n == scale * x[1]
        q == n \div x[2]
        r == n % x[2]
        t == IF 2 * r < x[2] THEN q
             ELSE IF 2 * r > x[2] THEN q + 1
             ELSE IF q % 2 = 0 THEN q ELSE q + 1
    IN  Rat(t, scale)

Round1(x) == RoundTo(x, 10)

Round2(x) == RoundTo(x, 100)

RECURSIVE SumSeq(_)
SumSeq(s) ==
    IF s = <<>> THEN 0
    ELSE IF Len(s) = 1 THEN s[1]
    ELSE SumSeq(SubSeq(s, 1, Len(s) \div 2))
         + SumSeq(SubSeq(s, Len(s) \div 2 + 1, Len(s)))

(* statistics.mean of a non-empty list of integer-valued floats *)
MeanInts(s) == Rat(SumSeq(s), Len(s))

RECURSIVE RSum(_)
RSum(s) == IF s = <<>> THEN FromInt(0) ELSE RAdd(s[1], RSum(Tail(s)))

(* statistics.mean of a non-empty list of floats *)
MeanRats(s) == RDiv(RSum(s), FromInt(Len(s)))

(* s[-n:] *)
LastN(s, n) == IF Len(s) <= n THEN s ELSE SubSeq(s, Len(s) - n + 1, Len(s))

---------------------------------------------------------------------------
(* str.upper() on the alphabet of the model *)

UpperChar(c) ==
    CASE c = "a" -> "A"
      [] c = "f" -> "F"
      [] c = "g" -> "G"
      [] c = "t" -> "T"
      [] OTHER   -> c

upper(name) == [i \in DOMAIN name |-> UpperChar(name[i])]


---------------------------------------------------------------------------
(* Data classes *)

(* AgentStatus(name=name): every other field at its default *)
AgentStatus(name) ==
    [ name                  |-> name,
      last_seen             |-> None,
      is_active             |-> FALSE,
      response_latencies    |-> <<>>,
      mentions_received     |-> 0,
      mentions_acknowledged |-> 0,
      correct_claims        |-> 0,
      total_claims          |-> 0,
      messages_sent         |-> 0,
      errors_detected       |-> 0 ]

ack_rate(agent) ==
    IF agent.mentions_received = 0 THEN FromInt(100)
    ELSE RMul(Rat(agent.mentions_acknowledged, agent.mentions_received), FromInt(100))

avg_latency(agent) ==
    IF agent.response_latencies = <<>> THEN FromInt(0)
    ELSE MeanInts(agent.response_latencies)

context_fidelity(agent) ==
    IF agent.total_claims = 0 THEN FromInt(100)
    ELSE RMul(Rat(agent.correct_claims, agent.total_claims), FromInt(100))

(* Alert(...): a new object, its identity not yet allocated *)
Alert(timestamp, severity, agent, metric, message, value, threshold) ==
    [ id        |-> 0,
      timestamp |-> timestamp,
      severity  |-> severity,
      agent     |-> agent,
      metric    |-> metric,
      message   |-> message,
      value     |-> value,
      threshold |-> threshold ]

CoherenceSnapshot(timestamp, overall, scores, active_count, total, n_alerts) ==
    [ timestamp     |-> timestamp,
      overall_score |-> overall,
      agent_scores  |-> scores,
      active_agents |-> active_count,
      total_agents  |-> total,
      alerts_active |-> n_alerts ]

(* Thresholds(): the defaults *)
DefaultThresholds ==
    [ latency_warning    |-> 30,  latency_critical   |-> 60,
      ack_rate_warning   |-> 80,  ack_rate_critical  |-> 60,
      fidelity_warning   |-> 90,  fidelity_critical  |-> 70,
      inactive_warning   |-> 120, inactive_critical  |-> 300,
      coherence_warning  |-> 75,  coherence_critical |-> 50 ]

(* Thresholds(...) with every warning cutoff on the wrong side of its
   critical cutoff: the constructor validates nothing *)
SwappedThresholds ==
    [ latency_warning    |-> 60,  latency_critical   |-> 30,
      ack_rate_warning   |-> 60,  ack_rate_critical  |-> 80,
      fidelity_warning   |-> 70,  fidelity_critical  |-> 90,
      inactive_warning   |-> 300, inactive_critical  |-> 120,
      coherence_warning  |-> 50,  coherence_critical |-> 75 ]

ThresholdConfigs == {DefaultThresholds, SwappedThresholds}

---------------------------------------------------------------------------
(* CoherenceScorer *)

WEIGHTS ==
    [ ack_rate |-> Rat(30, 100), latency  |-> Rat(25, 100),
      fidelity |-> Rat(30, 100), activity |-> Rat(15, 100) ]

(* the linear ramp shared by score_latency and score_activity:
   max(0.0, min(100.0, 100 - (x - lo) / (critical - lo) * 100)) *)
Ramp(x, lo, critical) ==
    LET range_size == RSub(FromInt(critical), FromInt(lo))
        score == RSub(FromInt(100),
                      RMul(RDiv(RSub(x, FromInt(lo)), range_size), FromInt(100)))
    IN  RMax(FromInt(0), RMin(FromInt(100), score))

(* score_latency with the "excellent" test placed before the critical test *)
score_latency_excellent_first(th, avg) ==
    IF RLeq(avg, FromInt(0)) THEN FromInt(100)
    ELSE IF RLeq(avg, FromInt(5)) THEN FromInt(100)
    ELSE IF RLeq(FromInt(th.latency_critical), avg) THEN FromInt(0)
    ELSE Ramp(avg, 5, th.latency_critical)

score_latency(th, avg) ==
    IF RLeq(avg, FromInt(0)) THEN FromInt(100)
    ELSE IF RLeq(FromInt(th.latency_critical), avg) THEN FromInt(0)
    ELSE IF RLeq(avg, FromInt(5)) THEN FromInt(100)
    ELSE Ramp(avg, 5, th.latency_critical)

score_activity(th, seconds_since_seen) ==
    IF seconds_since_seen <= 0 THEN FromInt(100)
    ELSE IF seconds_since_seen >= th.inactive_critical THEN FromInt(0)
    ELSE IF seconds_since_seen <= 30 THEN FromInt(100)
    ELSE Ramp(FromInt(seconds_since_seen), 30, th.inactive_critical)

(* calculate_agent_score taking an agent never seen as seen just now *)
calculate_agent_score_seen(th, agent, t) ==
    LET ack_score      == ack_rate(agent)
        latency_score  == score_latency(th, avg_latency(agent))
        fidelity_score == context_fidelity(agent)
        seconds_since  == IF agent.last_seen # None THEN t - agent.last_seen[1]
                          ELSE 0
        activity_score == score_activity(th, seconds_since)
        total == RAdd(RAdd(RMul(ack_score, WEIGHTS.ack_rate),
                           RMul(latency_score, WEIGHTS.latency)),
                      RAdd(RMul(fidelity_score, WEIGHTS.fidelity),
                           RMul(activity_score, WEIGHTS.activity)))
    IN  Round1(total)

calculate_agent_score(th, agent, t) ==
    LET ack_score      == ack_rate(agent)
        latency_score  == score_latency(th, avg_latency(agent))
        fidelity_score == context_fidelity(agent)
        seconds_since  == IF agent.last_seen # None THEN t - agent.last_seen[1]
                          ELSE th.inactive_critical
        activity_score == score_activity(th, seconds_since)
        total == RAdd(RAdd(RMul(ack_score, WEIGHTS.ack_rate),
                           RMul(latency_score, WEIGHTS.latency)),
                      RAdd(RMul(fidelity_score, WEIGHTS.fidelity),
                           RMul(activity_score, WEIGHTS.activity)))
    IN  Round1(total)

(* overall = sum(agent_scores.values()) / len(agent_scores), rounded *)
TeamOf(keys, agent_scores) ==
    <<Round1(MeanRats([i \in DOMAIN keys |-> agent_scores[keys[i]]])), agent_scores>>

(* calculate_team_score taking the mean of no scores to be 0 *)
calculate_team_score_zero(th, ags, keys, t) ==
    IF keys = <<>> THEN <<FromInt(0), <<>> >>
    ELSE TeamOf(keys, [k \in DOMAIN ags |-> calculate_agent_score(th, ags[k], t)])

(* calculate_team_score: <<overall, agent_scores>> *)
calculate_team_score(th, ags, keys, t) ==
    IF keys = <<>> THEN <<FromInt(100), <<>> >>
    ELSE TeamOf(keys, [k \in DOMAIN ags |-> calculate_agent_score(th, ags[k], t)])

---------------------------------------------------------------------------
(* AlertSystem *)

(* the identities of the Alert objects of a list built in order by one call *)
Allocate(alerts, first) == [i \in DOMAIN alerts |-> [alerts[i] EXCEPT !.id = first + i]]

(* CheckBelow with the warning test made a second "if" instead of "elif" *)
CheckBelowBoth(t, agent, metric, value, critical, warning, msg_critical, msg_warning) ==
    (IF RLess(value, FromInt(critical))
     THEN <<Alert(t, "CRITICAL", Some(agent.name), metric,
                  <<agent.name, msg_critical>>, value, critical)>>
     ELSE <<>>)
    \o (IF RLess(value, FromInt(warning))
        THEN <<Alert(t, "WARNING", Some(agent.name), metric,
                     <<agent.name, msg_warning>>, value, warning)>>
        ELSE <<>>)

(* one metric of check_agent: "if value crosses critical ... elif value
   crosses warning ...", for a metric where lower is worse *)
CheckBelow(t, agent, metric, value, critical, warning, msg_critical, msg_warning) ==
    IF RLess(value, FromInt(critical))
    THEN <<Alert(t, "CRITICAL", Some(agent.name), metric,
                 <<agent.name, msg_critical>>, value, critical)>>
    ELSE IF RLess(value, FromInt(warning))
    THEN <<Alert(t, "WARNING", Some(agent.name), metric,
                 <<agent.name, msg_warning>>, value, warning)>>
    ELSE <<>>

(* CheckAtOrAbove with ">" in place of ">=" *)
CheckAbove(t, agent, metric, value, critical, warning, msg_critical, msg_warning) ==
    IF RLess(FromInt(critical), value)
    THEN <<Alert(t, "CRITICAL", Some(agent.name), metric,
                 <<agent.name, msg_critical>>, value, critical)>>
    ELSE IF RLess(FromInt(warning), value)
    THEN <<Alert(t, "WARNING", Some(agent.name), metric,
                 <<agent.name, msg_warning>>, value, warning)>>
    ELSE <<>>

(* the same for a metric where higher is worse *)
CheckAtOrAbove(t, agent, metric, value, critical, warning, msg_critical, msg_warning) ==
    IF RLeq(FromInt(critical), value)
    THEN <<Alert(t, "CRITICAL", Some(agent.name), metric,
                 <<agent.name, msg_critical>>, value, critical)>>
    ELSE IF RLeq(FromInt(warning), value)
    THEN <<Alert(t, "WARNING", Some(agent.name), metric,
                 <<agent.name, msg_warning>>, value, warning)>>
    ELSE <<>>

(* check_agent measuring the inactivity of an agent never seen from the
   start of the session *)
check_agent_since_start(th, agent, t) ==
    LET ack == IF agent.mentions_received > 0
               THEN CheckBelow(t, agent, "ack_rate", ack_rate(agent),
                               th.ack_rate_critical, th.ack_rate_warning,
                               " acknowledgment rate critically low",
                               " acknowledgment rate below threshold")
               ELSE <<>>
        lat == IF RLess(FromInt(0), avg_latency(agent))
               THEN CheckAtOrAbove(t, agent, "latency", avg_latency(agent),
                                   th.latency_critical, th.latency_warning,
                                   " response latency critically high",
                                   " response latency high")
               ELSE <<>>
        fid == IF agent.total_claims > 0
               THEN CheckBelow(t, agent, "fidelity", context_fidelity(agent),
                               th.fidelity_critical, th.fidelity_warning,
                               " context fidelity critically low",
                               " context fidelity below threshold")
               ELSE <<>>
        act == CheckAtOrAbove(t, agent, "activity",
                              FromInt(IF agent.last_seen # None
                                      THEN t - agent.last_seen[1] ELSE t),
                              th.inactive_critical, th.inactive_warning,
                              " has been inactive for", " inactive for")
    IN  ack \o lat \o fid \o act

check_agent(th, agent, t) ==
    LET ack == IF agent.mentions_received > 0
               THEN CheckBelow(t, agent, "ack_rate", ack_rate(agent),
                               th.ack_rate_critical, th.ack_rate_warning,
                               " acknowledgment rate critically low",
                               " acknowledgment rate below threshold")
               ELSE <<>>
        lat == IF RLess(FromInt(0), avg_latency(agent))
               THEN CheckAtOrAbove(t, agent, "latency", avg_latency(agent),
                                   th.latency_critical, th.latency_warning,
                                   " response latency critically high",
                                   " response latency high")
               ELSE <<>>
        fid == IF agent.total_claims > 0
               THEN CheckBelow(t, agent, "fidelity", context_fidelity(agent),
                               th.fidelity_critical, th.fidelity_warning,
                               " context fidelity critically low",
                               " context fidelity below threshold")
               ELSE <<>>
        act == IF agent.last_seen # None
               THEN CheckAtOrAbove(t, agent, "activity",
                                   FromInt(t - agent.last_seen[1]),
                                   th.inactive_critical, th.inactive_warning,
                                   " has been inactive for", " inactive for")
               ELSE <<>>
    IN  ack \o lat \o fid \o act

(* check_team_coherence with "<=" in place of "<" *)
check_team_coherence_inclusive(th, score, t) ==
    IF RLeq(score, FromInt(th.coherence_critical))
    THEN Some(Alert(t, "CRITICAL", None, "coherence",
                    <<<<>>, "Team coherence critically low: ", score>>,
                    score, th.coherence_critical))
    ELSE IF RLeq(score, FromInt(th.coherence_warning))
    THEN Some(Alert(t, "WARNING", None, "coherence",
                    <<<<>>, "Team coherence below threshold: ", score>>,
                    score, th.coherence_warning))
    ELSE None

(* check_team_coherence: None or an alert *)
check_team_coherence(th, score, t) ==
    IF RLess(score, FromInt(th.coherence_critical))
    THEN Some(Alert(t, "CRITICAL", None, "coherence",
                    <<<<>>, "Team coherence critically low: ", score>>,
                    score, th.coherence_critical))
    ELSE IF RLess(score, FromInt(th.coherence_warning))
    THEN Some(Alert(t, "WARNING", None, "coherence",
                    <<<<>>, "Team coherence below threshold: ", score>>,
                    score, th.coherence_warning))
    ELSE None

(* [a for a in active_alerts if a.timestamp > cutoff] *)
PruneActive(active, t) ==
    LET cutoff == t - ACTIVE_WINDOW
        Recent(a) == a.timestamp > cutoff
    IN  SelectSeq(active, Recent)

(* the cap keeping the first 1000 entries, alert_history[:1000] *)
PruneHistoryOldest(history) ==
    IF Len(history) > MAX_HISTORY THEN SubSeq(history, 1, MAX_HISTORY) ELSE history

(* if len(alert_history) > 1000: alert_history = alert_history[-1000:] *)
PruneHistory(history) ==
    IF Len(history) > MAX_HISTORY THEN LastN(history, MAX_HISTORY) ELSE history

(* process_alerts rebuilding the active list from the history *)
process_alerts_from_history(active, history, alerts, t) ==
    [ active  |-> PruneActive(history \o alerts, t),
      history |-> PruneHistory(history \o alerts) ]

(* process_alerts: the two lists after the call *)
process_alerts(active, history, alerts, t) ==
    [ active  |-> PruneActive(active \o alerts, t),
      history |-> PruneHistory(history \o alerts) ]

get_active_alerts(active, severity) ==
    LET Matches(a) == a.severity = severity[1]
    IN  IF severity # None /\ severity[1] # ""
        THEN SelectSeq(active, Matches)
        ELSE active

(* the condition under which clear_alerts keeps an alert *)
ClearKeeps(a, agent, metric) ==
    /\ (agent = None \/ a.agent # agent)
    /\ (metric = None \/ a.metric # metric[1])

(* clear_alerts comparing the stored agent with agent.upper() *)
clear_alerts_upper(active, agent, metric) ==
    LET Kept(a) == ClearKeeps(a, IF agent = None THEN None ELSE Some(upper(agent[1])),
                              metric)
        after == SelectSeq(active, Kept)
    IN  [ active |-> after, ret |-> Len(active) - Len(after) ]

(* AlertSystem.clear_alerts: the active list after the call and the count
   returned *)
clear_alerts(active, agent, metric) ==
    LET Kept(a) == ClearKeeps(a, agent, metric)
        after == SelectSeq(active, Kept)
    IN  [ active |-> after, ret |-> Len(active) - Len(after) ]

---------------------------------------------------------------------------
(* TeamCoherenceMonitor: what each method does to the agent table, as a
   record [agents, keys, ret] of the table after the call and the value
   returned *)

Table(ags, keys, ret) == [agents |-> ags, keys |-> keys, ret |-> ret]

(* register_agent storing a new AgentStatus whether or not the key exists *)
register_agent_overwrite(ags, keys, name) ==
    LET k == upper(name)
    IN  Table((k :> AgentStatus(k)) @@ ags,
              IF k \in DOMAIN ags THEN keys ELSE Append(keys, k), AgentStatus(k))

register_agent(ags, keys, name) ==
    LET k == upper(name)
    IN  IF k \notin DOMAIN ags
        THEN Table(ags @@ (k :> AgentStatus(k)), Append(keys, k), AgentStatus(k))
        ELSE Table(ags, keys, ags[k])

(* unregister_agent looking the name up as given, without upper() *)
unregister_agent_as_given(ags, keys, name) ==
    LET Other(x) == x # name
    IN  IF name \in DOMAIN ags
        THEN Table([x \in DOMAIN ags \ {name} |-> ags[x]], SelectSeq(keys, Other), TRUE)
        ELSE Table(ags, keys, FALSE)

unregister_agent(ags, keys, name) ==
    LET k == upper(name)
        Other(x) == x # k
    IN  IF k \in DOMAIN ags
        THEN Table([x \in DOMAIN ags \ {k} |-> ags[x]], SelectSeq(keys, Other), TRUE)
        ELSE Table(ags, keys, FALSE)

(* self.agents.get(name.upper()) *)
get_agent(ags, name) ==
    IF upper(name) \in DOMAIN ags THEN Some(ags[upper(name)]) ELSE None

(* the record that register_agent returned, with the assignments made to it *)
Recorded(ags, keys, name, rec) ==
    LET r == register_agent(ags, keys, name)
    IN  Table([r.agents EXCEPT ![upper(name)] = rec], r.keys, None)

record_activity(ags, keys, name, t) ==
    LET agent == register_agent(ags, keys, name).ret
    IN  Recorded(ags, keys, name,
                 [agent EXCEPT !.last_seen = Some(t), !.is_active = TRUE])

record_mention(ags, keys, name, acknowledged) ==
    LET agent == register_agent(ags, keys, name).ret
    IN  Recorded(ags, keys, name,
                 [agent EXCEPT !.mentions_received = @ + 1,
                               !.mentions_acknowledged =
                                   IF acknowledged THEN @ + 1 ELSE @])

(* record_acknowledgment that ignores an agent it does not know *)
record_acknowledgment_known(ags, keys, name) ==
    IF upper(name) \in DOMAIN ags
    THEN Recorded(ags, keys, name,
                  [ags[upper(name)] EXCEPT !.mentions_acknowledged = @ + 1])
    ELSE Table(ags, keys, None)

record_acknowledgment(ags, keys, name) ==
    LET agent == register_agent(ags, keys, name).ret
    IN  Recorded(ags, keys, name, [agent EXCEPT !.mentions_acknowledged = @ + 1])

(* record_response keeping the oldest entries instead of the newest *)
record_response_oldest(ags, keys, name, latency, t) ==
    LET agent == register_agent(ags, keys, name).ret
        appended == Append(agent.response_latencies, latency)
    IN  Recorded(ags, keys, name,
                 [agent EXCEPT !.response_latencies =
                                   IF Len(appended) > MAX_LATENCIES
                                   THEN SubSeq(appended, 1, MAX_LATENCIES)
                                   ELSE appended,
                               !.last_seen = Some(t),
                               !.messages_sent = @ + 1])

record_response(ags, keys, name, latency, t) ==
    LET agent == register_agent(ags, keys, name).ret
        appended == Append(agent.response_latencies, latency)
    IN  Recorded(ags, keys, name,
                 [agent EXCEPT !.response_latencies =
                                   IF Len(appended) > MAX_LATENCIES
                                   THEN LastN(appended, MAX_LATENCIES)
                                   ELSE appended,
                               !.last_seen = Some(t),
                               !.messages_sent = @ + 1])

record_claim(ags, keys, name, correct) ==
    LET agent == register_agent(ags, keys, name).ret
    IN  Recorded(ags, keys, name,
                 [agent EXCEPT !.total_claims = @ + 1,
                               !.correct_claims = IF correct THEN @ + 1 ELSE @])

record_error(ags, keys, name) ==
    LET agent == register_agent(ags, keys, name).ret
    IN  Recorded(ags, keys, name, [agent EXCEPT !.errors_detected = @ + 1])

(* "if agent:" on an Optional[str]: neither None nor the empty string *)
Truthy(opt) == opt # None /\ opt[1] # <<>>

(* a table after one more imported entry: count += 1 *)
Counted(r, count) == Table(r.agents, r.keys, count + 1)

(* the loop body calling record_mention(agent) without the acknowledged flag *)
mentionguard_event_unacknowledged(tbl, event) ==
    IF Truthy(event.agent)
    THEN Counted(record_mention(tbl.agents, tbl.keys, event.agent[1], FALSE),
                 tbl.ret)
    ELSE tbl

(* the body of the loop of import_mentionguard_data *)
mentionguard_event(tbl, event) ==
    IF Truthy(event.agent)
    THEN Counted(record_mention(tbl.agents, tbl.keys, event.agent[1],
                                event.acknowledged), tbl.ret)
    ELSE tbl

RECURSIVE mentionguard_events(_, _)
mentionguard_events(tbl, events) ==
    IF events = <<>> THEN tbl
    ELSE mentionguard_events(mentionguard_event(tbl, events[1]), Tail(events))

(* import_mentionguard_data: events is the list data.get('events', []) *)
import_mentionguard_data(ags, keys, events) ==
    mentionguard_events(Table(ags, keys, 0), events)

(* record_claim(agent, correct=False) then record_error(agent) *)
claim_and_error(claimed, name) == record_error(claimed.agents, claimed.keys, name)

(* the body of the loop of import_liveaudit_data *)
liveaudit_issue(tbl, issue) ==
    IF Truthy(issue.agent)
    THEN Counted(claim_and_error(record_claim(tbl.agents, tbl.keys,
                                              issue.agent[1], FALSE),
                                 issue.agent[1]), tbl.ret)
    ELSE tbl

RECURSIVE liveaudit_issues(_, _)
liveaudit_issues(tbl, issues) ==
    IF issues = <<>> THEN tbl
    ELSE liveaudit_issues(liveaudit_issue(tbl, issues[1]), Tail(issues))

(* import_liveaudit_data: issues is the list data.get('issues', []) *)
import_liveaudit_data(ags, keys, issues) ==
    liveaudit_issues(Table(ags, keys, 0), issues)

(* Binary floating point, for "claims * grade / 100" with a grade that is
   no whole number.  A natural number too large for the checker's integers
   is the sequence of its digits to the base 1024, lowest first; a double is
   [m, e] with 2^52 <= m < 2^53, standing for m * 2^e *)

Pow2(n) == 2 ^ n

(* a * k + carry for a small k *)
RECURSIVE BigMul(_, _, _)
BigMul(a, k, carry) ==
    IF a = <<>>
    THEN IF carry = 0 THEN <<>> ELSE <<carry % 1024>> \o BigMul(<<>>, k, carry \div 1024)
    ELSE <<(a[1] * k + carry) % 1024>>
         \o BigMul(Tail(a), k, (a[1] * k + carry) \div 1024)

(* the digits of a without leading zeros *)
RECURSIVE Strip(_)
Strip(a) ==
    IF a = <<>> \/ a[Len(a)] # 0 THEN a ELSE Strip(SubSeq(a, 1, Len(a) - 1))

(* a divided by a small d: [q, r], the digits taken highest first *)
RECURSIVE BigDivFrom(_, _, _, _, _)
BigDivFrom(a, d, i, rem, acc) ==
    IF i = 0 THEN [q |-> Strip(acc), r |-> rem]
    ELSE BigDivFrom(a, d, i - 1, (rem * 1024 + a[i]) % d,
                    <<(rem * 1024 + a[i]) \div d>> \o acc)

BigDivMod(a, d) == BigDivFrom(a, d, Len(a), 0, <<>>)

BigFromInt(n) == Strip(<<n % 1024, (n \div 1024) % 1024, n \div (1024 * 1024)>>)

(* the value of a number below 2^31 *)
RECURSIVE BigToInt(_)
BigToInt(a) == IF a = <<>> THEN 0 ELSE a[1] + 1024 * BigToInt(Tail(a))

RECURSIVE SmallBits(_)
SmallBits(n) == IF n = 0 THEN 0 ELSE 1 + SmallBits(n \div 2)

(* the number of binary digits of a *)
BitLength(a) == IF a = <<>> THEN 0 ELSE 10 * (Len(a) - 1) + SmallBits(a[Len(a)])

(* a * 2^k *)
RECURSIVE ShiftLeft(_, _)
ShiftLeft(a, k) ==
    IF k >= 10 THEN ShiftLeft(<<0>> \o a, k - 10) ELSE BigMul(a, Pow2(k), 0)

(* a + 1 *)
RECURSIVE BigSucc(_)
BigSucc(a) ==
    IF a = <<>> THEN <<1>>
    ELSE IF a[1] < 1023 THEN <<a[1] + 1>> \o Tail(a)
    ELSE <<0>> \o BigSucc(Tail(a))

(* round half to even: q0 / 2^t + (a remainder r0 of a division by d below
   it) to 53 binary digits; ten digits at a time are dropped while t > 10,
   r0 > 0 then recording that a non-zero digit was dropped *)
RECURSIVE RoundMantissa(_, _, _, _, _)
RoundMantissa(q0, r0, d, t, e) ==
    IF t > 10
    THEN RoundMantissa(Tail(q0), IF q0[1] # 0 \/ r0 # 0 THEN 1 ELSE 0, d, t - 10, e + 10)
    ELSE
    LET cut  == BigDivMod(q0, Pow2(t))
        half == IF t = 0 THEN 0 ELSE Pow2(t - 1)
        up   == IF t = 0
                THEN 2 * r0 > d \/ (2 * r0 = d /\ cut.q[1] % 2 = 1)
                ELSE \/ cut.r > half
                     \/ cut.r = half /\ (r0 > 0 \/ cut.q[1] % 2 = 1)
        m    == IF up THEN BigSucc(cut.q) ELSE cut.q
    IN  IF BitLength(m) > 53
        THEN [m |-> BigDivMod(m, 2).q, e |-> e + t + 1]
        ELSE [m |-> m, e |-> e + t]

(* the double nearest to n / d * 2^e, for a natural n > 0 and a small d *)
ToDouble(n, d, e) ==
    LET k  == IF BitLength(n) >= 53 + SmallBits(d) THEN 0
              ELSE 53 + SmallBits(d) - BitLength(n)
        dv == BigDivMod(ShiftLeft(n, k), d)
    IN  RoundMantissa(dv.q, dv.r, d, BitLength(dv.q) - 53, e - k)

(* a + b + carry *)
RECURSIVE BigAdd(_, _, _)
BigAdd(a, b, carry) ==
    IF a = <<>> /\ b = <<>>
    THEN IF carry = 0 THEN <<>> ELSE <<carry>>
    ELSE <<((IF a = <<>> THEN 0 ELSE a[1]) + (IF b = <<>> THEN 0 ELSE b[1]) + carry)
           % 1024>>
         \o BigAdd(IF a = <<>> THEN a ELSE Tail(a), IF b = <<>> THEN b ELSE Tail(b),
                   ((IF a = <<>> THEN 0 ELSE a[1]) + (IF b = <<>> THEN 0 ELSE b[1])
                    + carry) \div 1024)

(* a < b, for a and b without leading zeros *)
RECURSIVE BigLess(_, _)
BigLess(a, b) ==
    IF Len(a) # Len(b) THEN Len(a) < Len(b)
    ELSE IF a = <<>> THEN FALSE
    ELSE IF a[Len(a)] # b[Len(b)] THEN a[Len(a)] < b[Len(b)]
    ELSE BigLess(SubSeq(a, 1, Len(a) - 1), SubSeq(b, 1, Len(b) - 1))

(* doubles between 0 and 100 are whole multiples of 2^-FixedScale, the means
   of up to a hundred of them included *)
FixedScale == 70

(* the double m * 2^e as a multiple of 2^-FixedScale *)
Fixed(x) == Strip(ShiftLeft(x.m, x.e + FixedScale))

(* a score as the float holding it: round(total, 1) is the double nearest to
   the decimal *)
ScoreDouble(score) ==
    IF score[1] = 0 THEN <<>>
    ELSE Fixed(ToDouble(BigFromInt(score[1]), score[2], 0))

RECURSIVE FixedSum(_)
FixedSum(scores) ==
    IF scores = <<>> THEN <<>>
    ELSE BigAdd(ScoreDouble(scores[1]), FixedSum(Tail(scores)), 0)

(* statistics.mean of floats: the exact sum over the count, as the nearest
   double *)
FloatMean(scores) ==
    IF FixedSum(scores) = <<>> THEN <<>>
    ELSE Fixed(ToDouble(FixedSum(scores), Len(scores), -FixedScale))

(* int(x) of a double x >= 0 below 2^31 *)
RECURSIVE Truncated(_, _)
Truncated(m, e) ==
    IF e >= 0 THEN BigToInt(ShiftLeft(m, e))
    ELSE IF e <= -10 THEN Truncated(IF m = <<>> THEN m ELSE Tail(m), e + 10)
    ELSE BigToInt(BigDivMod(m, Pow2(-e)).q)

(* int(claims * grade / 100) for a float grade n / d > 0 written in decimal
   and claims > 0: the grade as a double, a float product, a float quotient;
   rounding is symmetric, so a negative claims gives the negated result *)
FloatPercent(claims, n, d) ==
    LET grade   == ToDouble(BigFromInt(n), d, 0)
        product == ToDouble(BigMul(grade.m, claims, 0), 1, grade.e)
        percent == ToDouble(product.m, 100, product.e)
    IN  Truncated(percent.m, percent.e)

(* claims * grade / 100 of whole numbers, truncated toward zero *)
WholePercent(p) == IF p >= 0 THEN p \div 100 ELSE -((-p) \div 100)

(* int(claims * grade / 100): true division, then truncation toward zero;
   claims is a whole number and grade the fraction <<n, d>> >= 0 in lowest
   terms, a whole number when d = 1 *)
IntOfPercent(claims, grade) ==
    IF grade[2] = 1 THEN WholePercent(claims * grade[1])
    ELSE IF claims = 0 THEN 0
    ELSE IF claims < 0 THEN -FloatPercent(-claims, grade[1], grade[2])
    ELSE FloatPercent(claims, grade[1], grade[2])

(* one entry of import_postmortem_data that assigns the counters (=) instead
   of adding to them (+=) *)
postmortem_entry_assign(ags, keys, agent_data) ==
    LET agent == register_agent(ags, keys, agent_data.agent[1]).ret
        correct == IntOfPercent(agent_data.claims_made, agent_data.grade)
    IN  Recorded(ags, keys, agent_data.agent[1],
                 [agent EXCEPT !.total_claims = agent_data.claims_made,
                               !.correct_claims = correct])

(* import_postmortem_data for one entry with an agent *)
postmortem_entry(ags, keys, agent_data) ==
    LET agent == register_agent(ags, keys, agent_data.agent[1]).ret
        correct == IntOfPercent(agent_data.claims_made, agent_data.grade)
    IN  Recorded(ags, keys, agent_data.agent[1],
                 [agent EXCEPT !.total_claims = @ + agent_data.claims_made,
                               !.correct_claims = @ + correct])

(* the body of the loop of import_postmortem_data *)
postmortem_grade(tbl, agent_data) ==
    IF Truthy(agent_data.agent)
    THEN Counted(postmortem_entry(tbl.agents, tbl.keys, agent_data), tbl.ret)
    ELSE tbl

RECURSIVE postmortem_grades(_, _)
postmortem_grades(tbl, grades) ==
    IF grades = <<>> THEN tbl
    ELSE postmortem_grades(postmortem_grade(tbl, grades[1]), Tail(grades))

(* import_postmortem_data: grades is the list data.get('agent_grades', []) *)
import_postmortem_data(ags, keys, grades) ==
    postmortem_grades(Table(ags, keys, 0), grades)

get_coherence_score(th, ags, keys, t) == calculate_team_score(th, ags, keys, t)[1]

get_agent_scores(th, ags, keys, t) == calculate_team_score(th, ags, keys, t)[2]

(* get_agent_metrics: None or the metrics dict *)
get_agent_metrics(th, ags, name, t) ==
    LET found == get_agent(ags, name)
        agent == found[1]
    IN  IF found = None THEN None
        ELSE Some([ name                  |-> agent.name,
                    ack_rate              |-> Round1(ack_rate(agent)),
                    avg_latency           |-> Round2(avg_latency(agent)),
                    context_fidelity      |-> Round1(context_fidelity(agent)),
                    mentions_received     |-> agent.mentions_received,
                    mentions_acknowledged |-> agent.mentions_acknowledged,
                    messages_sent         |-> agent.messages_sent,
                    errors_detected       |-> agent.errors_detected,
                    is_active             |-> agent.is_active,
                    last_seen             |-> agent.last_seen,
                    coherence_score       |-> calculate_agent_score(th, agent, t) ])

(* sum(1 for a in self.agents.values() if a.is_active) *)
ActiveCount(ags) == Cardinality({k \in DOMAIN ags : ags[k].is_active})

(* the snapshot built from overall, agent_scores = calculate_team_score() *)
SnapshotOf(t, team, active_count, total, n_alerts) ==
    CoherenceSnapshot(t, team[1], team[2], active_count, total, n_alerts)

(* the trim keeping the first 1000 snapshots, snapshots[:1000] *)
PruneSnapshotsOldest(snaps) ==
    IF Len(snaps) > MAX_SNAPSHOTS THEN SubSeq(snaps, 1, MAX_SNAPSHOTS) ELSE snaps

(* if len(snapshots) > 1000: snapshots = snapshots[-1000:] *)
PruneSnapshots(snaps) ==
    IF Len(snaps) > MAX_SNAPSHOTS THEN LastN(snaps, MAX_SNAPSHOTS) ELSE snaps

(* self.snapshots.append(snapshot), the trim, and "return snapshot" *)
StoreSnapshot(snaps, snapshot) ==
    [ snapshots |-> PruneSnapshots(Append(snaps, snapshot)), ret |-> snapshot ]

(* take_snapshot: the snapshot list after the call and the snapshot returned *)
take_snapshot(th, ags, keys, active, snaps, t) ==
    StoreSnapshot(snaps, SnapshotOf(t, calculate_team_score(th, ags, keys, t),
                                    ActiveCount(ags), Len(keys), Len(active)))

(* [s for s in self.snapshots if s.timestamp > cutoff] *)
RecentSnapshots(snaps, cutoff) ==
    LET Recent(s) == s.timestamp > cutoff
    IN  SelectSeq(snaps, Recent)

(* [s.overall_score for s in recent] *)
ScoresOf(recent) == [i \in DOMAIN recent |-> recent[i].overall_score]

(* mean(scores[len(scores)//2:]) - mean(scores[:len(scores)//2]) *)
HalfChange(scores) ==
    RSub(MeanRats(SubSeq(scores, (Len(scores) \div 2) + 1, Len(scores))),
         MeanRats(SubSeq(scores, 1, Len(scores) \div 2)))

(* IMPROVING, DEGRADING or STABLE for a change known exactly *)
LabelOfChange(change) ==
    IF RLess(FromInt(5), change) THEN "IMPROVING"
    ELSE IF RLess(change, FromInt(-5)) THEN "DEGRADING"
    ELSE "STABLE"

(* 5 + 2^-51: the float difference a - b is above 5.0 exactly when a - b is
   above this (the doubles next to 5.0 are 2^-50 apart and a tie rounds to
   5.0) *)
TrendEdge == BigAdd(ShiftLeft(<<5>>, FixedScale), ShiftLeft(<<1>>, FixedScale - 51), 0)

(* change > 5, change < -5 for the float change = avg_second - avg_first *)
FloatLabel(avg_first, avg_second) ==
    IF BigLess(BigAdd(avg_first, TrendEdge, 0), avg_second) THEN "IMPROVING"
    ELSE IF BigLess(BigAdd(avg_second, TrendEdge, 0), avg_first) THEN "DEGRADING"
    ELSE "STABLE"

TrendLabel(scores) ==
    FloatLabel(FloatMean(SubSeq(scores, 1, Len(scores) \div 2)),
               FloatMean(SubSeq(scores, (Len(scores) \div 2) + 1, Len(scores))))

RECURSIVE RMinSeq(_)
RMinSeq(s) == IF Len(s) = 1 THEN s[1] ELSE RMin(s[1], RMinSeq(Tail(s)))

RECURSIVE RMaxSeq(_)
RMaxSeq(s) == IF Len(s) = 1 THEN s[1] ELSE RMax(s[1], RMaxSeq(Tail(s)))

(* the dict returned when at least two snapshots are in the window *)
TrendReport(change, scores) ==
    [ trend     |-> TrendLabel(scores),
      change    |-> Round1(change),
      samples   |-> Len(scores),
      min_score |-> RMinSeq(scores),
      max_score |-> RMaxSeq(scores),
      avg_score |-> Round1(MeanRats(scores)) ]

(* the dict returned when fewer than two snapshots are in the window *)
InsufficientReport(samples, score) ==
    [ trend     |-> "STABLE",
      change    |-> FromInt(0),
      samples   |-> samples,
      min_score |-> score,
      max_score |-> score,
      avg_score |-> score ]

(* get_trend reporting the score of the one snapshot in the window *)
TrendFromSample(th, ags, keys, recent, t) ==
    IF Len(recent) < 2
    THEN InsufficientReport(Len(recent),
                            IF recent = <<>> THEN get_coherence_score(th, ags, keys, t)
                            ELSE recent[1].overall_score)
    ELSE TrendReport(HalfChange(ScoresOf(recent)), ScoresOf(recent))

(* get_trend after recent was selected *)
TrendFrom(th, ags, keys, recent, t) ==
    IF Len(recent) < 2
    THEN InsufficientReport(Len(recent), get_coherence_score(th, ags, keys, t))
    ELSE TrendReport(HalfChange(ScoresOf(recent)), ScoresOf(recent))

(* get_trend(minutes): cutoff = now - timedelta(minutes=minutes) *)
get_trend(th, ags, keys, snaps, minutes, t) ==
    TrendFrom(th, ags, keys, RecentSnapshots(snaps, t - 60 * minutes), t)

(* the alerts of "for agent in self.agents.values(): new_alerts.extend(...)" *)
RECURSIVE AgentAlerts(_, _, _, _)
AgentAlerts(th, ags, keys, t) ==
    IF keys = <<>> THEN <<>>
    ELSE check_agent(th, ags[keys[1]], t) \o AgentAlerts(th, ags, Tail(keys), t)

(* check_all_alerts: the Alert objects it creates, in the order of new_alerts *)
NewAlerts(th, ags, keys, t, first) ==
    LET coherence_alert == check_team_coherence(th, get_coherence_score(th, ags, keys, t), t)
    IN  Allocate(AgentAlerts(th, ags, keys, t) \o coherence_alert, first)

(* self.alerts.process_alerts(new_alerts) and "return new_alerts" *)
Processed(active, history, new_alerts, t) ==
    [ active  |-> process_alerts(active, history, new_alerts, t).active,
      history |-> process_alerts(active, history, new_alerts, t).history,
      ret     |-> new_alerts ]

(* check_all_alerts dropping a new alert when an active alert has the same
   agent, metric and severity *)
check_all_alerts_once(th, ags, keys, active, history, t, first) ==
    LET Unseen(a) == \A i \in DOMAIN active :
                         \/ active[i].agent # a.agent
                         \/ active[i].metric # a.metric
                         \/ active[i].severity # a.severity
        found == AgentAlerts(th, ags, keys, t)
                 \o check_team_coherence(th, get_coherence_score(th, ags, keys, t), t)
    IN  Processed(active, history, Allocate(SelectSeq(found, Unseen), first), t)

(* check_all_alerts: the two alert lists after the call and the list returned *)
check_all_alerts(th, ags, keys, active, history, t, first) ==
    Processed(active, history, NewAlerts(th, ags, keys, t, first), t)

(* reset(): every collection cleared *)
reset_state == [agents |-> <<>>, keys |-> <<>>, active |-> <<>>, history |-> <<>>,
                snapshots |-> <<>>]

---------------------------------------------------------------------------
(* Inputs *)

Names == { <<"f", "G">>, <<"F", "G">>, <<"a", "t">> }

RecordNames == { <<"f", "G">>, <<"a", "t">> }

LatencyValues == { -1, 70 }

TickSteps == { 150, 3601 }

MentionPayloads ==
    { << [agent |-> Some(<<"f", "G">>), acknowledged |-> TRUE],
         [agent |-> None, acknowledged |-> FALSE],
         [agent |-> Some(<<"a", "t">>), acknowledged |-> FALSE] >>,
      << [agent |-> Some(<<>>), acknowledged |-> TRUE],
         [agent |-> Some(<<"F", "G">>), acknowledged |-> FALSE],
         [agent |-> Some(<<"f", "G">>), acknowledged |-> FALSE] >> }

AuditPayloads ==
    { << [agent |-> Some(<<"a", "t">>)], [agent |-> None],
         [agent |-> Some(<<"F", "G">>)] >>,
      << [agent |-> Some(<<>>)], [agent |-> Some(<<"f", "G">>)],
         [agent |-> Some(<<"F", "G">>)] >> }

GradePayloads ==
    { << [agent |-> Some(<<"f", "G">>), grade |-> FromInt(85), claims_made |-> 10],
         [agent |-> None, grade |-> FromInt(100), claims_made |-> 10] >>,
      << [agent |-> Some(<<"a", "t">>), grade |-> FromInt(33), claims_made |-> 7],
         [agent |-> Some(<<>>), grade |-> FromInt(100), claims_made |-> 10],
         [agent |-> Some(<<"a", "t">>), grade |-> FromInt(100), claims_made |-> 0] >>,
      << [agent |-> Some(<<"f", "G">>), grade |-> FromInt(50), claims_made |-> -3] >> }

(* <<agent, metric>> arguments of clear_alerts *)
ClearFilters ==
    { <<None, None>>, <<Some(<<"F", "G">>), None>>, <<Some(<<"f", "G">>), None>>,
      <<None, Some("coherence")>>, <<Some(<<"F", "G">>), Some("coherence")>> }

SeverityFilters == { None, Some("CRITICAL") }

(* the alert that the tests hand to process_alerts, aged by `age` seconds *)
TestAlert(age) ==
    Alert(now - age, "WARNING", Some(<<"F", "G">>), "ack_rate",
          << <<>>, "Test alert" >>, FromInt(75), 80)

---------------------------------------------------------------------------
(* The state machine *)

Call(op, args, ret) == [op |-> op, args |-> args, ret |-> ret]

Counters == { "mentions_received", "mentions_acknowledged", "correct_claims",
              "total_claims", "messages_sent", "errors_detected" }

Max(a, b) == IF a < b THEN b ELSE a

(* the highest counter values shown so far, after the table became ags *)
Observe(pk, ags) ==
    [ k \in DOMAIN pk \cup DOMAIN ags |->
        [ c \in Counters |->
            IF k \notin DOMAIN ags THEN pk[k][c]
            ELSE IF k \notin DOMAIN pk THEN ags[k][c]
            ELSE Max(pk[k][c], ags[k][c]) ] ]

(* TeamCoherenceMonitor(thresholds=th, auto_load=False) *)
Constructed(th) ==
    /\ agents = <<>>
    /\ agent_keys = <<>>
    /\ thresholds = th
    /\ active_alerts = <<>>
    /\ alert_history = <<>>
    /\ snapshots = <<>>
    /\ now = 0
    /\ next_id = 0
    /\ call = Call("__init__", <<>>, None)
    /\ peak = <<>>
    /\ ops = 0

(* TeamCoherenceMonitor(auto_load=False): thresholds or Thresholds() *)
Init == Constructed(DefaultThresholds)

(* a call that touches the agent table only *)
TableCall(op, args, r) ==
    /\ agents' = r.agents
    /\ agent_keys' = r.keys
    /\ call' = Call(op, args, r.ret)
    /\ peak' = Observe(peak, r.agents)
    /\ ops' = ops + 1
    /\ UNCHANGED <<thresholds, active_alerts, alert_history, snapshots, now, next_id>>

(* a call that marks every agent it reads as active *)
ReadCallMarking(op, args, ret) ==
    /\ call' = Call(op, args, ret)
    /\ ops' = ops + 1
    /\ agents' = [k \in DOMAIN agents |-> [agents[k] EXCEPT !.is_active = TRUE]]
    /\ UNCHANGED <<agent_keys, thresholds, active_alerts, alert_history,
                   snapshots, now, next_id, peak>>

(* a call that changes nothing *)
ReadCall(op, args, ret) ==
    /\ call' = Call(op, args, ret)
    /\ ops' = ops + 1
    /\ UNCHANGED <<agents, agent_keys, thresholds, active_alerts, alert_history,
                   snapshots, now, next_id, peak>>

RegisterAgent(n) ==
    TableCall("register_agent", <<n>>, register_agent(agents, agent_keys, n))

UnregisterAgent(n) ==
    TableCall("unregister_agent", <<n>>, unregister_agent(agents, agent_keys, n))

GetAgent(n) == ReadCall("get_agent", <<n>>, get_agent(agents, n))

GetAgentMetrics(n) ==
    ReadCall("get_agent_metrics", <<n>>, get_agent_metrics(thresholds, agents, n, now))

RecordActivity(n) ==
    TableCall("record_activity", <<n>>, record_activity(agents, agent_keys, n, now))

RecordMention(n, acknowledged) ==
    TableCall("record_mention", <<n, acknowledged>>,
              record_mention(agents, agent_keys, n, acknowledged))

RecordAcknowledgment(n) ==
    TableCall("record_acknowledgment", <<n>>,
              record_acknowledgment(agents, agent_keys, n))

RecordResponse(n, latency) ==
    TableCall("record_response", <<n, latency>>,
              record_response(agents, agent_keys, n, latency, now))

RecordClaim(n, correct) ==
    TableCall("record_claim", <<n, correct>>,
              record_claim(agents, agent_keys, n, correct))

RecordError(n) ==
    TableCall("record_error", <<n>>, record_error(agents, agent_keys, n))

ImportMentionguard(events) ==
    TableCall("import_mentionguard_data", <<events>>,
              import_mentionguard_data(agents, agent_keys, events))

ImportLiveaudit(issues) ==
    TableCall("import_liveaudit_data", <<issues>>,
              import_liveaudit_data(agents, agent_keys, issues))

ImportPostmortem(grades) ==
    TableCall("import_postmortem_data", <<grades>>,
              import_postmortem_data(agents, agent_keys, grades))

GetCoherenceScore ==
    ReadCall("get_coherence_score", <<>>,
             get_coherence_score(thresholds, agents, agent_keys, now))

GetTrend(minutes) ==
    ReadCall("get_trend", <<minutes>>,
             get_trend(thresholds, agents, agent_keys, snapshots, minutes, now))

TakeSnapshot ==
    \E r \in { take_snapshot(thresholds, agents, agent_keys, active_alerts,
                             snapshots, now) } :
        /\ snapshots' = r.snapshots
        /\ call' = Call("take_snapshot", <<>>, r.ret)
        /\ ops' = ops + 1
        /\ UNCHANGED <<agents, agent_keys, thresholds, active_alerts, alert_history,
                       now, next_id, peak>>

CheckAllAlerts ==
    \E r \in { check_all_alerts(thresholds, agents, agent_keys, active_alerts,
                                alert_history, now, next_id) } :
        /\ active_alerts' = r.active
        /\ alert_history' = r.history
        /\ next_id' = next_id + Len(r.ret)
        /\ call' = Call("check_all_alerts", <<>>, r.ret)
        /\ ops' = ops + 1
        /\ UNCHANGED <<agents, agent_keys, thresholds, snapshots, now, peak>>

(* AlertSystem.process_alerts called with alerts built by the caller, as the
   tests do; ages lists the age of each alert *)
ProcessAlerts(ages) ==
    LET alerts == Allocate([i \in DOMAIN ages |-> TestAlert(ages[i])], next_id)
        r == process_alerts(active_alerts, alert_history, alerts, now)
    IN  /\ active_alerts' = r.active
        /\ alert_history' = r.history
        /\ next_id' = next_id + Len(alerts)
        /\ call' = Call("process_alerts", <<alerts>>, None)
        /\ ops' = ops + 1
        /\ UNCHANGED <<agents, agent_keys, thresholds, snapshots, now, peak>>

GetAlerts(severity) ==
    ReadCall("get_alerts", <<severity>>, get_active_alerts(active_alerts, severity))

(* AlertSystem.clear_alerts; TeamCoherenceMonitor.clear_alerts(agent) is the
   call with metric = None *)
ClearAlerts(agent, metric) ==
    LET r == clear_alerts(active_alerts, agent, metric)
    IN  /\ active_alerts' = r.active
        /\ call' = Call("clear_alerts", <<agent, metric>>, r.ret)
        /\ ops' = ops + 1
        /\ UNCHANGED <<agents, agent_keys, thresholds, alert_history, snapshots,
                       now, next_id, peak>>

Reset ==
    /\ agents' = reset_state.agents
    /\ agent_keys' = reset_state.keys
    /\ active_alerts' = reset_state.active
    /\ alert_history' = reset_state.history
    /\ snapshots' = reset_state.snapshots
    /\ call' = Call("reset", <<>>, None)
    /\ peak' = <<>>
    /\ ops' = ops + 1
    /\ UNCHANGED <<thresholds, now, next_id>>

(* time passes between two calls *)
Tick(d) ==
    /\ now' = now + d
    /\ call' = Call("tick", <<d>>, None)
    /\ ops' = ops + 1
    /\ UNCHANGED <<agents, agent_keys, thresholds, active_alerts, alert_history,
                   snapshots, next_id, peak>>

Next ==
    /\ ops < MaxOps
    /\ \/ \E n \in Names : RegisterAgent(n)
       \/ \E n \in Names : UnregisterAgent(n)
       \/ \E n \in Names : GetAgent(n)
       \/ \E n \in RecordNames : GetAgentMetrics(n)
       \/ \E n \in RecordNames : RecordActivity(n)
       \/ \E n \in RecordNames, b \in BOOLEAN : RecordMention(n, b)
       \/ \E n \in RecordNames : RecordAcknowledgment(n)
       \/ \E n \in RecordNames, l \in LatencyValues : RecordResponse(n, l)
       \/ \E n \in RecordNames, b \in BOOLEAN : RecordClaim(n, b)
       \/ \E n \in RecordNames : RecordError(n)
       \/ \E p \in MentionPayloads : ImportMentionguard(p)
       \/ \E p \in AuditPayloads : ImportLiveaudit(p)
       \/ \E p \in GradePayloads : ImportPostmortem(p)
       \/ GetCoherenceScore
       \/ TakeSnapshot
       \/ GetTrend(30)
       \/ CheckAllAlerts
       \/ \E ages \in { <<0>>, <<ACTIVE_WINDOW, 0>> } : ProcessAlerts(ages)
       \/ \E sev \in SeverityFilters : GetAlerts(sev)
       \/ \E f \in ClearFilters : ClearAlerts(f[1], f[2])
       \/ Reset
       \/ \E d \in TickSteps : Tick(d)

Spec == Init /\ [][Next]_vars

---------------------------------------------------------------------------
(* Long runs of record_response: each agent is sent the latencies 1, 2, 3,
   ... (the run of test_record_response_limits_history), the calls of the
   two agents interleaved *)

(* the latency of the i-th record_response call for an agent *)
StreamLatency(i) == i

(* the number of record_response calls made so far for name *)
ResponsesOf(name) ==
    IF upper(name) \in DOMAIN agents THEN agents[upper(name)].messages_sent ELSE 0

NextLatency ==
    \E n \in RecordNames :
        /\ ResponsesOf(n) < MAX_LATENCIES + MaxOverflow
        /\ RecordResponse(n, StreamLatency(ResponsesOf(n) + 1))

SpecLatency == Init /\ [][NextLatency]_vars

(* C1: after n record_response calls for an agent, response_latencies holds
   the latencies of the most recent min(n, 100) calls, in order; its length
   never exceeds 100 *)
C1_LatencyHistoryMostRecent ==
    \A k \in DOMAIN agents :
        LET n == agents[k].messages_sent
            m == Min(n, 100)
        IN  /\ Len(agents[k].response_latencies) = m
            /\ Len(agents[k].response_latencies) <= 100
            /\ \A j \in 1..m :
                   agents[k].response_latencies[j] = StreamLatency(n - m + j)

(* more than 100 calls were made for an agent and the oldest were evicted *)
C1_Witness ==
    \E k \in DOMAIN agents :
        /\ agents[k].messages_sent = 102
        /\ Len(agents[k].response_latencies) = 100
        /\ agents[k].response_latencies[1] = StreamLatency(3)
        /\ agents[k].response_latencies[100] = StreamLatency(102)

---------------------------------------------------------------------------
(* Monitors constructed with each threshold configuration, driven by the
   recording calls that feed the four metrics *)

InitConfigured == \E th \in ThresholdConfigs : Constructed(th)

(* one agent suffices: check_agent reads a single record *)
CheckedNames == { <<"f", "G">> }

NextThresholds ==
    /\ ops < MaxSteps
    /\ \/ \E n \in CheckedNames : RegisterAgent(n)
       \/ \E n \in CheckedNames : RecordActivity(n)
       \/ \E n \in CheckedNames, b \in BOOLEAN : RecordMention(n, b)
       \/ \E n \in CheckedNames, l \in LatencyValues : RecordResponse(n, l)
       \/ \E n \in CheckedNames, b \in BOOLEAN : RecordClaim(n, b)
       \/ \E d \in TickSteps : Tick(d)
       \/ CheckAllAlerts

SpecThresholds == InitConfigured /\ [][NextThresholds]_vars

AgentMetrics == {"ack_rate", "latency", "fidelity", "activity"}

(* the value of an alert is past the critical cutoff of its metric *)
CrossesCritical(th, a) ==
    CASE a.metric = "ack_rate" -> RLess(a.value, FromInt(th.ack_rate_critical))
      [] a.metric = "fidelity" -> RLess(a.value, FromInt(th.fidelity_critical))
      [] a.metric = "latency"  -> RLeq(FromInt(th.latency_critical), a.value)
      [] a.metric = "activity" -> RLeq(FromInt(th.inactive_critical), a.value)

(* C2: for every agent record and threshold configuration, check_agent
   returns at most one alert per metric among ack_rate, latency, fidelity and
   activity (at most 4 alerts), never a WARNING and a CRITICAL for the same
   metric, and an alert whose value crosses the critical threshold is
   CRITICAL *)
C2_OneAlertPerMetric ==
    \A k \in DOMAIN agents :
        LET alerts == check_agent(thresholds, agents[k], now)
        IN  /\ Len(alerts) <= 4
            /\ \A i \in DOMAIN alerts :
                   /\ alerts[i].metric \in AgentMetrics
                   /\ alerts[i].severity \in {"WARNING", "CRITICAL"}
                   /\ \A j \in DOMAIN alerts :
                          alerts[i].metric = alerts[j].metric => i = j
                   /\ CrossesCritical(thresholds, alerts[i])
                          => alerts[i].severity = "CRITICAL"

(* check_all_alerts has run on a monitor whose warning cutoffs are on the
   wrong side, and returned a CRITICAL latency alert for an average that is
   past the critical cutoff but not past the warning cutoff *)
C2_Witness ==
    /\ thresholds = SwappedThresholds
    /\ call.op = "check_all_alerts"
    /\ \E i \in DOMAIN call.ret :
           /\ call.ret[i].metric = "latency"
           /\ call.ret[i].severity = "CRITICAL"
           /\ RLeq(FromInt(thresholds.latency_critical), call.ret[i].value)
           /\ RLess(call.ret[i].value, FromInt(thresholds.latency_warning))


---------------------------------------------------------------------------
(* Clearing and ageing of active alerts, under Spec *)

(* C3: clear_alerts(agent, metric) removes exactly the active alerts that
   match every supplied filter (agent equal when agent is given and metric
   equal when metric is given; every alert when neither is given), keeps the
   others in their order, and returns the number removed *)
C3_ClearRemovesMatchingEveryFilter ==
    [][call'.op = "clear_alerts" =>
        LET agent == call'.args[1]
            metric == call'.args[2]
            Matches(a) == /\ (agent = None \/ a.agent = agent)
                          /\ (metric = None \/ a.metric = metric[1])
            Others(a) == ~Matches(a)
        IN  /\ active_alerts' = SelectSeq(active_alerts, Others)
            /\ call'.ret = Len(active_alerts) - Len(SelectSeq(active_alerts, Others))
      ]_vars

(* C5: in every reachable state every alert that get_active_alerts returns is
   newer than the current time minus one hour *)
C5_ActiveWithinWindow ==
    \A i \in DOMAIN get_active_alerts(active_alerts, None) :
        get_active_alerts(active_alerts, None)[i].timestamp > now - ACTIVE_WINDOW

---------------------------------------------------------------------------
(* The cap of alert_history: batches of alerts handed to process_alerts, one
   of them BatchLen long, between check_all_alerts calls on an agent that
   misses its mentions, with time passing *)

HistoryBatches ==
    { <<0>>, <<ACTIVE_WINDOW>>,
      [i \in 1..BatchLen |-> IF i % 2 = 0 THEN 0 ELSE ACTIVE_WINDOW] }

NextHistory ==
    /\ ops < MaxBatches
    /\ \/ \E ages \in HistoryBatches : ProcessAlerts(ages)
       \/ CheckAllAlerts
       \/ RecordMention(<<"f", "G">>, FALSE)
       \/ Tick(ACTIVE_WINDOW + 1)

SpecHistory == Init /\ [][NextHistory]_vars

(* C4: alert_history holds at most 1000 alerts and is exactly the most
   recently inserted min(total inserted, 1000) alerts in insertion order,
   whatever their ages; the i-th alert ever inserted is the one with id i,
   and next_id alerts have been inserted *)
C4_HistoryIsMostRecent ==
    /\ Len(alert_history) = Min(next_id, MAX_HISTORY)
    /\ \A i \in DOMAIN alert_history :
           alert_history[i].id = next_id - Len(alert_history) + i

(* more than 1000 alerts were inserted, the oldest one kept is out of the
   active window, and check_all_alerts inserted some of them *)
C4_Witness ==
    /\ next_id > MAX_HISTORY
    /\ Len(alert_history) = MAX_HISTORY
    /\ alert_history[1].timestamp <= now - ACTIVE_WINDOW
    /\ Len(active_alerts) < MAX_HISTORY
    /\ \E i \in DOMAIN alert_history : alert_history[i].metric = "coherence"

---------------------------------------------------------------------------
(* The agent table, under Spec *)

UpperLetters == { "A", "F", "G", "T" }

CasePairs == { {"a", "A"}, {"f", "F"}, {"g", "G"}, {"t", "T"} }

(* two names that differ at most by the case of their letters *)
SameIgnoringCase(m, n) ==
    /\ Len(m) = Len(n)
    /\ \A i \in DOMAIN m : m[i] = n[i] \/ {m[i], n[i]} \in CasePairs

(* the uppercase form of a name *)
CanonicalKey(n) ==
    CHOOSE k \in [DOMAIN n -> UpperLetters] : SameIgnoringCase(k, n)

(* a fresh all-zero record *)
FreshRecord(k) ==
    [ name |-> k, last_seen |-> None, is_active |-> FALSE,
      response_latencies |-> <<>>, mentions_received |-> 0,
      mentions_acknowledged |-> 0, correct_claims |-> 0, total_claims |-> 0,
      messages_sent |-> 0, errors_detected |-> 0 ]

(* C6: for every agent name, no counter that get_agent shows is below a
   value it showed earlier, unless reset() was called in between *)
C6_CountersNeverDrop ==
    \A k \in DOMAIN agents : \A c \in Counters : agents[k][c] >= peak[k][c]

(* an import_postmortem_data call with an entry for key k whose claims_made
   or grade is negative *)
NegativeGrade(c, k) ==
    /\ c.op = "import_postmortem_data"
    /\ \E i \in DOMAIN c.args[1] :
           /\ Truthy(c.args[1][i].agent)
           /\ CanonicalKey(c.args[1][i].agent[1]) = k
           /\ (c.args[1][i].claims_made < 0 \/ c.args[1][i].grade[1] < 0)

(* C6: a counter of a record does not decrease over a call that leaves the
   record in the table, except total_claims and correct_claims over an
   import_postmortem_data call with a negative claims_made or grade for that
   agent; a record leaves the table only by reset() or unregister_agent *)
C6_CountersGrowWhileRegistered ==
    [][/\ \A k \in DOMAIN agents \cap DOMAIN agents' : \A c \in Counters :
              \/ agents'[k][c] >= agents[k][c]
              \/ /\ c \in {"total_claims", "correct_claims"}
                 /\ NegativeGrade(call', k)
       /\ \A k \in DOMAIN agents \ DOMAIN agents' :
              call'.op \in {"reset", "unregister_agent"}
      ]_vars

(* a record that was unregistered and registered again shows zero where it
   showed a mention before *)
C6_Witness ==
    /\ call.op = "register_agent"
    /\ \E k \in DOMAIN agents :
           /\ agents[k].mentions_received = 0
           /\ peak[k].mentions_received > 0

(* C7: right after record_activity(n) and right after record_response(n,
   latency) the record of n has is_active = TRUE *)
C7_RecencySetsActive ==
    call.op \in {"record_activity", "record_response"} =>
        /\ get_agent(agents, call.args[1]) # None
        /\ get_agent(agents, call.args[1])[1].is_active

(* C8: register_agent(n) leaves exactly one key that equals n up to case,
   the uppercase form, and returns its record; when such a key was there
   already the table, with every record in it, is unchanged; otherwise the
   table grows by one record *)
C8_RegisterIdempotentAnyCase ==
    [][call'.op = "register_agent" =>
        LET n == call'.args[1]
            before == {k \in DOMAIN agents : SameIgnoringCase(k, n)}
            after == {k \in DOMAIN agents' : SameIgnoringCase(k, n)}
        IN  /\ after = {CanonicalKey(n)}
            /\ call'.ret = agents'[CanonicalKey(n)]
            /\ before # {} => agents' = agents /\ agent_keys' = agent_keys
            /\ before = {} =>
                   /\ Cardinality(DOMAIN agents') = Cardinality(DOMAIN agents) + 1
                   /\ agents'[CanonicalKey(n)] = FreshRecord(CanonicalKey(n))
      ]_vars

(* register_agent("fG") found the record FG with its mention and its
   response in place *)
C8_Witness ==
    /\ call.op = "register_agent"
    /\ call.args[1] = <<"f", "G">>
    /\ DOMAIN agents = {<<"F", "G">>}
    /\ agents[<<"F", "G">>].mentions_received + agents[<<"F", "G">>].messages_sent = 2

RecordingOps ==
    { "record_activity", "record_mention", "record_acknowledgment",
      "record_response", "record_claim", "record_error" }

ImportOps ==
    { "import_mentionguard_data", "import_liveaudit_data", "import_postmortem_data" }

(* what one recording call c leaves of a fresh record, at time t *)
FirstRecording(c, k, t) ==
    CASE c.op = "record_activity" ->
             [FreshRecord(k) EXCEPT !.last_seen = Some(t), !.is_active = TRUE]
      [] c.op = "record_mention" ->
             [FreshRecord(k) EXCEPT !.mentions_received = 1,
                                    !.mentions_acknowledged = IF c.args[2] THEN 1 ELSE 0]
      [] c.op = "record_acknowledgment" ->
             [FreshRecord(k) EXCEPT !.mentions_acknowledged = 1]
      [] c.op = "record_response" ->
             [FreshRecord(k) EXCEPT !.response_latencies = <<c.args[2]>>,
                                    !.last_seen = Some(t), !.messages_sent = 1]
      [] c.op = "record_claim" ->
             [FreshRecord(k) EXCEPT !.total_claims = 1,
                                    !.correct_claims = IF c.args[2] THEN 1 ELSE 0]
      [] c.op = "record_error" ->
             [FreshRecord(k) EXCEPT !.errors_detected = 1]

(* q is x / 100 truncated toward zero *)
IsTruncatedPercent(q, x) ==
    IF x >= 0 THEN 100 * q <= x /\ x < 100 * (q + 1)
    ELSE 100 * (q - 1) < x /\ x <= 100 * q

(* rec is what one entry e of the import call op leaves of a fresh record *)
IsFirstImport(op, e, k, rec) ==
    CASE op = "import_mentionguard_data" ->
             rec = [FreshRecord(k) EXCEPT
                        !.mentions_received = 1,
                        !.mentions_acknowledged = IF e.acknowledged THEN 1 ELSE 0]
      [] op = "import_liveaudit_data" ->
             rec = [FreshRecord(k) EXCEPT !.total_claims = 1, !.errors_detected = 1]
      [] op = "import_postmortem_data" ->
             /\ rec = [FreshRecord(k) EXCEPT !.total_claims = e.claims_made,
                                             !.correct_claims = rec.correct_claims]
             /\ e.grade[2] = 1
             /\ IsTruncatedPercent(rec.correct_claims, e.claims_made * e.grade[1])

(* the entries of an import payload that name an agent with key k *)
EntriesNaming(entries, k) ==
    { i \in DOMAIN entries :
          Truthy(entries[i].agent) /\ CanonicalKey(entries[i].agent[1]) = k }

(* the keys that the entries of an import payload name *)
KeysNamed(entries) ==
    { CanonicalKey(entries[i].agent[1]) :
          i \in {j \in DOMAIN entries : Truthy(entries[j].agent)} }

(* C9: after a recording call on n the table holds the uppercase form of n,
   a record created by the call is that one operation applied to a fresh
   record, and no other record changes; after an import call the table
   holds the key of every entry naming an agent, a record created for a key
   that one entry names is that entry applied to a fresh record, and no
   record that no entry names changes *)
C9_RecordingAutoRegisters ==
    [][/\ call'.op \in RecordingOps =>
              LET k == CanonicalKey(call'.args[1])
              IN  /\ DOMAIN agents' = DOMAIN agents \cup {k}
                  /\ k \notin DOMAIN agents =>
                         agents'[k] = FirstRecording(call', k, now)
                  /\ \A j \in DOMAIN agents \ {k} : agents'[j] = agents[j]
       /\ call'.op \in ImportOps =>
              LET entries == call'.args[1]
              IN  /\ DOMAIN agents' = DOMAIN agents \cup KeysNamed(entries)
                  /\ \A k \in KeysNamed(entries) \ DOMAIN agents :
                         \A i \in EntriesNaming(entries, k) :
                             EntriesNaming(entries, k) = {i} =>
                                 IsFirstImport(call'.op, entries[i], k, agents'[k])
                  /\ \A j \in DOMAIN agents \ KeysNamed(entries) :
                         agents'[j] = agents[j]
      ]_vars

(* record_error("at") created AT next to FG, which an import had created *)
C9_Witness ==
    /\ call.op = "record_error"
    /\ call.args[1] = <<"a", "t">>
    /\ DOMAIN agents = {<<"A", "T">>, <<"F", "G">>}
    /\ agents[<<"A", "T">>].errors_detected = 1
    /\ agents[<<"F", "G">>].total_claims = 10

(* C10: for a name whose uppercase form is not a key of the table,
   get_agent and get_agent_metrics return None and unregister_agent returns
   False, and the table is unchanged; unregister_agent of a name whose
   uppercase form is a key returns True and removes that record only *)
C10_UnknownAgentNotFound ==
    [][/\ call'.op \in {"get_agent", "get_agent_metrics"}
              /\ CanonicalKey(call'.args[1]) \notin DOMAIN agents =>
              call'.ret = None /\ agents' = agents /\ agent_keys' = agent_keys
       /\ call'.op = "unregister_agent"
              /\ CanonicalKey(call'.args[1]) \notin DOMAIN agents =>
              call'.ret = FALSE /\ agents' = agents /\ agent_keys' = agent_keys
       /\ call'.op = "unregister_agent"
              /\ CanonicalKey(call'.args[1]) \in DOMAIN agents =>
              /\ call'.ret = TRUE
              /\ DOMAIN agents' = DOMAIN agents \ {CanonicalKey(call'.args[1])}
              /\ \A j \in DOMAIN agents' : agents'[j] = agents[j]
      ]_vars

(* unregister_agent of an unknown name answered False while another agent
   stayed registered *)
C10_Witness ==
    /\ call.op = "unregister_agent"
    /\ call.ret = FALSE
    /\ call.args[1] = <<"a", "t">>
    /\ DOMAIN agents = {<<"F", "G">>}

---------------------------------------------------------------------------
(* Scores, under Spec *)

(* C11: whenever the agent table is empty, get_coherence_score returns
   exactly 100.0 and get_agent_scores returns an empty map *)
C11_EmptyTeamScores100 ==
    /\ agents = <<>> =>
           /\ get_coherence_score(thresholds, agents, agent_keys, now) = FromInt(100)
           /\ get_agent_scores(thresholds, agents, agent_keys, now) = <<>>
    /\ call.op = "get_coherence_score" /\ agents = <<>> => call.ret = FromInt(100)

(* get_coherence_score was called after the only agent was unregistered *)
C11_Witness ==
    /\ call.op = "get_coherence_score"
    /\ agents = <<>>
    /\ DOMAIN peak # {}

(* C12: an agent registered but without recordings has activity score 0,
   ack rate 100, fidelity 100 and latency score 100, so its score is exactly
   85.0; a team of one or more such agents has team score exactly 85.0 *)
C12_UnseenAgentScores85 ==
    /\ \A k \in DOMAIN agents :
           agents[k] = FreshRecord(k) =>
               /\ score_activity(thresholds, thresholds.inactive_critical) = FromInt(0)
               /\ ack_rate(agents[k]) = FromInt(100)
               /\ context_fidelity(agents[k]) = FromInt(100)
               /\ score_latency(thresholds, avg_latency(agents[k])) = FromInt(100)
               /\ \A th \in ThresholdConfigs :
                      calculate_agent_score(th, agents[k], now) = FromInt(85)
    /\ (agent_keys # <<>> /\ \A k \in DOMAIN agents : agents[k] = FreshRecord(k)) =>
           get_coherence_score(thresholds, agents, agent_keys, now) = FromInt(85)
    /\ (/\ call.op = "get_coherence_score"
        /\ agent_keys # <<>>
        /\ \A k \in DOMAIN agents : agents[k] = FreshRecord(k)) =>
           call.ret = FromInt(85)

(* get_coherence_score was called on a team of two agents without
   recordings *)
C12_Witness ==
    /\ call.op = "get_coherence_score"
    /\ Len(agent_keys) = 2
    /\ \A k \in DOMAIN agents : agents[k] = FreshRecord(k)

(* C13: calculate_agent_score returns a value in [0, 100] for every record
   of the table, and so get_coherence_score returns a value in [0, 100] *)
C13_ScoresWithinRange ==
    /\ \A k \in DOMAIN agents :
           /\ RLeq(FromInt(0), calculate_agent_score(thresholds, agents[k], now))
           /\ RLeq(calculate_agent_score(thresholds, agents[k], now), FromInt(100))
    /\ RLeq(FromInt(0), get_coherence_score(thresholds, agents, agent_keys, now))
    /\ RLeq(get_coherence_score(thresholds, agents, agent_keys, now), FromInt(100))

---------------------------------------------------------------------------
(* CoherenceScorer.score_latency called directly, as the scorer tests do, on
   a scorer whose latency_critical is any of 1 .. MaxCritical, with
   latencies from -1 to MaxCritical + 1 in steps of a half *)

CriticalValues == 1..MaxCritical

LatencyInputs == { Rat(k, 2) : k \in (-2)..(2 * MaxCritical + 2) }

InitScorer ==
    \E c \in CriticalValues :
        Constructed([DefaultThresholds EXCEPT !.latency_critical = c])

ScoreLatency(x) ==
    ReadCall("score_latency", <<x>>, score_latency(thresholds, x))

NextScorer ==
    /\ ops < MaxOps
    /\ \E x \in LatencyInputs : ScoreLatency(x)

SpecScorer == InitScorer /\ [][NextScorer]_vars

(* C14: for a positive latency_critical, score_latency is non-increasing
   (no larger latency scores higher), its result is in [0, 100], it is 100
   for x <= 0 and 0 for every x >= latency_critical *)
C14_ScoreLatencyMonotone ==
    call.op = "score_latency" =>
        /\ RLeq(FromInt(0), call.ret) /\ RLeq(call.ret, FromInt(100))
        /\ RLeq(call.args[1], FromInt(0)) => call.ret = FromInt(100)
        /\ RLeq(FromInt(thresholds.latency_critical), call.args[1]) =>
               call.ret = FromInt(0)
        /\ \A y \in LatencyInputs :
               RLeq(call.args[1], y) =>
                   RLeq(score_latency(thresholds, y), call.ret)

(* a latency on the ramp between 5 seconds and latency_critical *)
C14_Witness ==
    /\ call.op = "score_latency"
    /\ RLess(FromInt(0), call.ret) /\ RLess(call.ret, FromInt(100))
    /\ RLess(FromInt(5), call.args[1])

---------------------------------------------------------------------------
(* check_all_alerts on one agent whose metrics sit on and next to the
   thresholds: 2 to 5 of 5 mentions acknowledged (40, 60, 80, 100 %), grades
   of 60 to 100 % on 10 claims, latencies and idle times at a threshold and
   one second to either side *)

BoundaryMentions ==
    { [i \in 1..5 |-> [agent |-> Some(<<"f", "G">>), acknowledged |-> i <= k]] :
          k \in 2..5 }

BoundaryGrades ==
    { << [agent |-> Some(<<"f", "G">>), grade |-> FromInt(g), claims_made |-> 10] >> :
          g \in {60, 70, 80, 90, 100} }

BoundaryLatencies == { 29, 30, 31, 59, 60, 61, 70 }

BoundaryIdle == { 119, 120, 121, 299, 300, 301 }

NextBoundary ==
    /\ ops < MaxOps
    /\ \/ \E p \in BoundaryMentions : ImportMentionguard(p)
       \/ \E p \in BoundaryGrades : ImportPostmortem(p)
       \/ \E l \in BoundaryLatencies : RecordResponse(<<"f", "G">>, l)
       \/ RecordActivity(<<"f", "G">>)
       \/ \E d \in BoundaryIdle : Tick(d)
       \/ CheckAllAlerts

SpecBoundary == InitConfigured /\ [][NextBoundary]_vars

(* the list holds an alert of that severity on that metric of agent FG *)
HasAlert(alerts, metric, severity) ==
    \E i \in DOMAIN alerts :
        /\ alerts[i].agent = Some(<<"F", "G">>)
        /\ alerts[i].metric = metric
        /\ alerts[i].severity = severity

(* the alerts a metric must raise when crossing means value >= cutoff *)
RaisedAtOrAbove(alerts, metric, value, critical, warning) ==
    /\ HasAlert(alerts, metric, "CRITICAL") <=> RLeq(FromInt(critical), value)
    /\ HasAlert(alerts, metric, "WARNING") <=>
           RLess(value, FromInt(critical)) /\ RLeq(FromInt(warning), value)

(* the alerts a metric must raise when crossing means value < cutoff *)
RaisedBelow(alerts, metric, value, critical, warning) ==
    /\ HasAlert(alerts, metric, "CRITICAL") <=> RLess(value, FromInt(critical))
    /\ HasAlert(alerts, metric, "WARNING") <=>
           RLeq(FromInt(critical), value) /\ RLess(value, FromInt(warning))

(* C15: check_agent crosses with >= for latency and inactivity and with <
   for ack rate and fidelity: a value equal to a cutoff raises that cutoff's
   alert for latency and activity and does not raise it for ack_rate and
   fidelity *)
C15_ComparatorsAtThresholds ==
    (call.op = "check_all_alerts" /\ <<"F", "G">> \in DOMAIN agents) =>
        LET a == agents[<<"F", "G">>]
            th == thresholds
        IN  /\ a.response_latencies # <<>> /\ RLess(FromInt(0), avg_latency(a)) =>
                   RaisedAtOrAbove(call.ret, "latency", avg_latency(a),
                                   th.latency_critical, th.latency_warning)
            /\ a.last_seen # None =>
                   RaisedAtOrAbove(call.ret, "activity", FromInt(now - a.last_seen[1]),
                                   th.inactive_critical, th.inactive_warning)
            /\ a.mentions_received > 0 =>
                   RaisedBelow(call.ret, "ack_rate", ack_rate(a),
                               th.ack_rate_critical, th.ack_rate_warning)
            /\ a.total_claims > 0 =>
                   RaisedBelow(call.ret, "fidelity", context_fidelity(a),
                               th.fidelity_critical, th.fidelity_warning)

(* default thresholds: 4 of 5 mentions acknowledged (80.0) raised no
   ack_rate alert and an average latency of exactly 30 raised a WARNING *)
C15_Witness ==
    /\ call.op = "check_all_alerts"
    /\ thresholds = DefaultThresholds
    /\ <<"F", "G">> \in DOMAIN agents
    /\ agents[<<"F", "G">>].mentions_received = 5
    /\ ack_rate(agents[<<"F", "G">>]) = FromInt(80)
    /\ ~HasAlert(call.ret, "ack_rate", "WARNING")
    /\ ~HasAlert(call.ret, "ack_rate", "CRITICAL")
    /\ agents[<<"F", "G">>].response_latencies = <<30>>
    /\ HasAlert(call.ret, "latency", "WARNING")

---------------------------------------------------------------------------
(* AlertSystem.check_team_coherence called directly, as the alert tests do,
   with scores on the two cutoffs, a tenth to either side, and away from
   them *)

CoherenceInputs ==
    { FromInt(0), FromInt(40), Rat(499, 10), FromInt(50), Rat(501, 10), FromInt(70),
      Rat(749, 10), FromInt(75), Rat(751, 10), FromInt(85), FromInt(100) }

CheckTeamCoherence(score) ==
    ReadCall("check_team_coherence", <<score>>,
             check_team_coherence(thresholds, score, now))

NextTeamAlert ==
    /\ ops < MaxOps
    /\ \/ \E s \in CoherenceInputs : CheckTeamCoherence(s)
       \/ \E d \in TickSteps : Tick(d)

SpecTeamAlert == InitConfigured /\ [][NextTeamAlert]_vars

(* C16: check_team_coherence(score) returns a CRITICAL alert iff score <
   coherence_critical, a WARNING alert iff coherence_critical <= score <
   coherence_warning, and None otherwise; an alert returned has no agent,
   metric "coherence", the score as value and the crossed cutoff as
   threshold *)
C16_TeamCoherenceAlert ==
    call.op = "check_team_coherence" =>
        LET score == call.args[1]
            critical == thresholds.coherence_critical
            warning == thresholds.coherence_warning
            IsCritical == RLess(score, FromInt(critical))
            IsWarning == RLeq(FromInt(critical), score) /\ RLess(score, FromInt(warning))
        IN  /\ (call.ret # None /\ call.ret[1].severity = "CRITICAL") <=> IsCritical
            /\ (call.ret # None /\ call.ret[1].severity = "WARNING") <=> IsWarning
            /\ call.ret = None <=> ~IsCritical /\ ~IsWarning
            /\ call.ret # None =>
                   /\ call.ret[1].agent = None
                   /\ call.ret[1].metric = "coherence"
                   /\ call.ret[1].value = score
                   /\ call.ret[1].timestamp = now
                   /\ call.ret[1].threshold =
                          IF call.ret[1].severity = "CRITICAL" THEN critical ELSE warning

(* a score exactly equal to coherence_warning raised no alert *)
C16_Witness ==
    /\ call.op = "check_team_coherence"
    /\ thresholds = DefaultThresholds
    /\ call.args[1] = FromInt(thresholds.coherence_warning)
    /\ call.ret = None

---------------------------------------------------------------------------
(* Snapshots and the trend over them: snapshots taken while the one agent's
   metrics change and time passes, get_trend asked for windows of 2 and of
   30 minutes *)

TrendWindows == { 2, 30 }

NextTrend ==
    /\ ops < MaxSteps
    /\ \/ \E b \in BOOLEAN : RecordMention(<<"f", "G">>, b)
       \/ RecordActivity(<<"f", "G">>)
       \/ TakeSnapshot
       \/ \E d \in TickSteps : Tick(d)
       \/ \E w \in TrendWindows : GetTrend(w)

SpecTrend == Init /\ [][NextTrend]_vars

(* the snapshots whose timestamp is inside the trailing window *)
Qualifying(minutes) ==
    { i \in DOMAIN snapshots : snapshots[i].timestamp > now - 60 * minutes }

(* C17: with fewer than 2 snapshots inside the window, get_trend returns
   STABLE, change 0.0, samples = the number of qualifying snapshots, and
   min_score, max_score and avg_score equal to the team score at the time of
   the call *)
C17_TrendInsufficientData ==
    (call.op = "get_trend" /\ Cardinality(Qualifying(call.args[1])) < 2) =>
        /\ call.ret.trend = "STABLE"
        /\ call.ret.change = FromInt(0)
        /\ call.ret.samples = Cardinality(Qualifying(call.args[1]))
        /\ call.ret.min_score = get_coherence_score(thresholds, agents, agent_keys, now)
        /\ call.ret.max_score = get_coherence_score(thresholds, agents, agent_keys, now)
        /\ call.ret.avg_score = get_coherence_score(thresholds, agents, agent_keys, now)

(* one snapshot qualified and its stored score differs from the score
   reported *)
C17_Witness ==
    /\ call.op = "get_trend"
    /\ call.ret.samples = 1
    /\ \E i \in Qualifying(call.args[1]) :
           snapshots[i].overall_score # call.ret.avg_score
    /\ Len(snapshots) > 1

---------------------------------------------------------------------------
(* A long run of take_snapshot: the clock advances by a second before each
   snapshot, so the n-th snapshot taken carries timestamp n; near the cap an
   agent misses a mention and check_all_alerts runs *)

NearCap == Len(snapshots) >= MAX_SNAPSHOTS - 1

NextSnapshots ==
    \/ /\ call.op # "tick"
       /\ now < MAX_SNAPSHOTS + MaxOverflow
       /\ Tick(1)
    \/ /\ call.op = "tick"
       /\ TakeSnapshot
    \/ /\ call.op # "tick"
       /\ NearCap
       /\ agents = <<>>
       /\ RecordMention(<<"f", "G">>, FALSE)
    \/ /\ call.op \notin {"tick", "check_all_alerts"}
       /\ NearCap
       /\ active_alerts = <<>>
       /\ CheckAllAlerts

SpecSnapshots == Init /\ [][NextSnapshots]_vars

(* the number of take_snapshot calls made so far in such a run *)
SnapshotsTaken == IF call.op = "tick" THEN now - 1 ELSE now

(* C18: after n take_snapshot calls the history has length min(n, 1000) and
   holds the most recent min(n, 1000) snapshots in the order taken, and a
   retained snapshot keeps every field when later recording, alert or
   snapshot calls run: without the snapshot a call has just appended, the
   history after the call is the tail of the history before it *)
C18_SnapshotsMostRecent ==
    /\ [](/\ Len(snapshots) = Min(SnapshotsTaken, MAX_SNAPSHOTS)
          /\ \A i \in DOMAIN snapshots :
                 snapshots[i].timestamp = SnapshotsTaken - Len(snapshots) + i)
    /\ [][LET retained == IF call'.op = "take_snapshot"
                          THEN SubSeq(snapshots', 1, Len(snapshots') - 1)
                          ELSE snapshots'
          IN  retained = LastN(snapshots, Len(retained))]_vars

(* more than 1000 snapshots were taken, the first ones are gone, and the
   team score changed between the oldest and the newest one retained *)
C18_Witness ==
    /\ Len(snapshots) = MAX_SNAPSHOTS
    /\ SnapshotsTaken > MAX_SNAPSHOTS
    /\ snapshots[1].timestamp > 1
    /\ snapshots[1].overall_score # snapshots[MAX_SNAPSHOTS].overall_score
    /\ snapshots[1].alerts_active # snapshots[MAX_SNAPSHOTS].alerts_active

---------------------------------------------------------------------------
(* The interchange shape: to_dict / from_dict of the three data classes.  A
   dict is a function from its keys; an ISO-8601 text is the record of the
   calendar fields it spells out *)

(* datetime.isoformat(): the date and the time of day it writes *)
isoformat(t) ==
    [ date   |-> t \div 86400,
      hour   |-> (t % 86400) \div 3600,
      minute |-> (t % 3600) \div 60,
      second |-> t % 60 ]

(* datetime.fromisoformat(text) *)
fromisoformat(text) ==
    text.date * 86400 + text.hour * 3600 + text.minute * 60 + text.second

(* data.get(key, default) *)
Get(data, key, default) == IF key \in DOMAIN data THEN data[key] ELSE default

(* AgentStatus.to_dict with the slice written [-99:] *)
AgentStatus_to_dict_short(agent) ==
    [ name                  |-> agent.name,
      last_seen             |-> IF agent.last_seen # None
                                THEN Some(isoformat(agent.last_seen[1])) ELSE None,
      is_active             |-> agent.is_active,
      response_latencies    |-> LastN(agent.response_latencies, MAX_LATENCIES - 1),
      mentions_received     |-> agent.mentions_received,
      mentions_acknowledged |-> agent.mentions_acknowledged,
      correct_claims        |-> agent.correct_claims,
      total_claims          |-> agent.total_claims,
      messages_sent         |-> agent.messages_sent,
      errors_detected       |-> agent.errors_detected ]

AgentStatus_to_dict(agent) ==
    [ name                  |-> agent.name,
      last_seen             |-> IF agent.last_seen # None
                                THEN Some(isoformat(agent.last_seen[1])) ELSE None,
      is_active             |-> agent.is_active,
      response_latencies    |-> LastN(agent.response_latencies, MAX_LATENCIES),
      mentions_received     |-> agent.mentions_received,
      mentions_acknowledged |-> agent.mentions_acknowledged,
      correct_claims        |-> agent.correct_claims,
      total_claims          |-> agent.total_claims,
      messages_sent         |-> agent.messages_sent,
      errors_detected       |-> agent.errors_detected ]

AgentStatus_from_dict(data) ==
    [ name                  |-> data["name"],
      last_seen             |-> IF Get(data, "last_seen", None) # None
                                THEN Some(fromisoformat(data["last_seen"][1]))
                                ELSE None,
      is_active             |-> Get(data, "is_active", FALSE),
      response_latencies    |-> Get(data, "response_latencies", <<>>),
      mentions_received     |-> Get(data, "mentions_received", 0),
      mentions_acknowledged |-> Get(data, "mentions_acknowledged", 0),
      correct_claims        |-> Get(data, "correct_claims", 0),
      total_claims          |-> Get(data, "total_claims", 0),
      messages_sent         |-> Get(data, "messages_sent", 0),
      errors_detected       |-> Get(data, "errors_detected", 0) ]

Alert_to_dict(alert) ==
    [ timestamp |-> isoformat(alert.timestamp),
      severity  |-> alert.severity,
      agent     |-> alert.agent,
      metric    |-> alert.metric,
      message   |-> alert.message,
      value     |-> alert.value,
      threshold |-> alert.threshold ]

(* Alert.from_dict: a new Alert object *)
Alert_from_dict(data) ==
    Alert(fromisoformat(data["timestamp"]), data["severity"],
          Get(data, "agent", None), data["metric"], data["message"],
          data["value"], data["threshold"])

(* asdict(self) *)
Thresholds_to_dict(th) == [ k \in DOMAIN th |-> th[k] ]

(* the constructor called with the entries of data whose key is a field of
   the class; a field data lacks takes its default *)
Thresholds_from_dict(data) ==
    [ k \in DOMAIN DefaultThresholds |-> Get(data, k, DefaultThresholds[k]) ]

(* export_data: the dictionary with all monitor data *)
export_data(th, ags, keys, active, snaps, t) ==
    [ timestamp       |-> isoformat(t),
      coherence_score |-> get_coherence_score(th, ags, keys, t),
      agent_scores    |-> get_agent_scores(th, ags, keys, t),
      agents          |-> [ k \in DOMAIN ags |-> AgentStatus_to_dict(ags[k]) ],
      active_alerts   |-> [ i \in DOMAIN active |-> Alert_to_dict(active[i]) ],
      trend           |-> get_trend(th, ags, keys, snaps, 30, t),
      thresholds      |-> Thresholds_to_dict(th) ]

ExportData ==
    ReadCall("export_data", <<>>,
             export_data(thresholds, agents, agent_keys, active_alerts, snapshots, now))

(* One agent is sent a long run of responses, as in SpecLatency; from any
   point of the run the monitor is then driven for a few more calls and
   exported *)

Streamed == ResponsesOf(<<"a", "t">>)

NextRoundTrip ==
    \/ /\ ops = Streamed
       /\ Streamed < MAX_LATENCIES + MaxOverflow
       /\ RecordResponse(<<"a", "t">>, StreamLatency(Streamed + 1))
    \/ /\ ops - Streamed < MaxOps
       /\ \/ RecordActivity(<<"f", "G">>)
          \/ RecordMention(<<"f", "G">>, FALSE)
          \/ CheckAllAlerts
          \/ \E d \in TickSteps : Tick(d)
          \/ ExportData

SpecRoundTrip == InitConfigured /\ [][NextRoundTrip]_vars

(* the fields of two Alert objects agree *)
SameAlert(a, b) == [a EXCEPT !.id = b.id] = b

AlertsRoundTrip(alerts) ==
    \A i \in DOMAIN alerts :
        SameAlert(Alert_from_dict(Alert_to_dict(alerts[i])), alerts[i])

(* C19: from_dict(to_dict(x)) reproduces every field of x, for every agent
   record reached through the recording operations (last_seen present or
   absent, the whole latency list in order), every alert (the agent of a
   team-level alert absent) and every threshold configuration; the
   dictionaries export_data returns convert back to the objects of the
   monitor *)
C19_RoundTrip ==
    /\ \A k \in DOMAIN agents :
           AgentStatus_from_dict(AgentStatus_to_dict(agents[k])) = agents[k]
    /\ AlertsRoundTrip(active_alerts)
    /\ AlertsRoundTrip(alert_history)
    /\ \A th \in ThresholdConfigs \cup {thresholds} :
           Thresholds_from_dict(Thresholds_to_dict(th)) = th
    /\ call.op = "export_data" =>
           /\ DOMAIN call.ret.agents = DOMAIN agents
           /\ \A k \in DOMAIN agents :
                  AgentStatus_from_dict(call.ret.agents[k]) = agents[k]
           /\ Len(call.ret.active_alerts) = Len(active_alerts)
           /\ \A i \in DOMAIN active_alerts :
                  SameAlert(Alert_from_dict(call.ret.active_alerts[i]),
                            active_alerts[i])
           /\ Thresholds_from_dict(call.ret.thresholds) = thresholds

(* an export of a monitor holding a record with all 100 latencies, an alert
   of that agent and a team-level alert, raised at a time that is no whole
   minute *)
C19_Witness ==
    /\ call.op = "export_data"
    /\ \E k \in DOMAIN agents :
           /\ Len(agents[k].response_latencies) = MAX_LATENCIES
           /\ agents[k].messages_sent > MAX_LATENCIES
    /\ \E i \in DOMAIN active_alerts :
           /\ active_alerts[i].agent = None
           /\ active_alerts[i].timestamp % 60 # 0
    /\ \E i \in DOMAIN active_alerts : active_alerts[i].agent # None

---------------------------------------------------------------------------
(* The import adapters against the native recording calls *)

(* the record of key k before the call: a key not yet in the table stands
   for a fresh record, which is what register_agent creates *)
Before(k) == IF k \in DOMAIN agents THEN agents[k] ELSE FreshRecord(k)

(* the entries naming k that are acknowledged *)
Acknowledged(events, k) == { i \in EntriesNaming(events, k) : events[i].acknowledged }

(* the number of entries with an agent *)
WithAgent(entries) ==
    Cardinality({ i \in DOMAIN entries :
                      entries[i].agent # None /\ entries[i].agent[1] # <<>> })

(* one record_mention(agent, acknowledged) per event with an agent, in the
   order of the list *)
RECURSIVE NativeMentions(_, _)
NativeMentions(tbl, events) ==
    IF events = <<>> THEN tbl
    ELSE NativeMentions(
             IF Truthy(events[1].agent)
             THEN record_mention(tbl.agents, tbl.keys, events[1].agent[1],
                                 events[1].acknowledged)
             ELSE tbl,
             Tail(events))

(* record_claim(agent, correct=False) then record_error(agent) per issue with
   an agent *)
RECURSIVE NativeIssues(_, _)
NativeIssues(tbl, issues) ==
    IF issues = <<>> THEN tbl
    ELSE NativeIssues(
             IF Truthy(issues[1].agent)
             THEN record_error(
                      record_claim(tbl.agents, tbl.keys, issues[1].agent[1],
                                   FALSE).agents,
                      record_claim(tbl.agents, tbl.keys, issues[1].agent[1],
                                   FALSE).keys,
                      issues[1].agent[1])
             ELSE tbl,
             Tail(issues))

(* C20: import_mentionguard_data leaves the table that one
   record_mention(agent, acknowledged) per event with an agent leaves:
   mentions_received grows by the number of events naming the agent and
   mentions_acknowledged by the number of those that are acknowledged;
   import_liveaudit_data leaves the table that record_claim(agent, False)
   and record_error(agent) per issue with an agent leave: total_claims and
   errors_detected grow by the number of issues naming the agent and
   correct_claims is unchanged; nothing else changes, and the count returned
   is the number of entries with an agent *)
C20_ImportsAreNativeCalls ==
    [][/\ call'.op = "import_mentionguard_data" =>
              /\ agents' = NativeMentions(Table(agents, agent_keys, None),
                                          call'.args[1]).agents
              /\ agent_keys' = NativeMentions(Table(agents, agent_keys, None),
                                              call'.args[1]).keys
              /\ \A k \in DOMAIN agents' :
                     agents'[k] =
                         [Before(k) EXCEPT
                             !.mentions_received =
                                 @ + Cardinality(EntriesNaming(call'.args[1], k)),
                             !.mentions_acknowledged =
                                 @ + Cardinality(Acknowledged(call'.args[1], k))]
              /\ call'.ret = WithAgent(call'.args[1])
       /\ call'.op = "import_liveaudit_data" =>
              /\ agents' = NativeIssues(Table(agents, agent_keys, None),
                                        call'.args[1]).agents
              /\ agent_keys' = NativeIssues(Table(agents, agent_keys, None),
                                            call'.args[1]).keys
              /\ \A k \in DOMAIN agents' :
                     agents'[k] =
                         [Before(k) EXCEPT
                             !.total_claims =
                                 @ + Cardinality(EntriesNaming(call'.args[1], k)),
                             !.errors_detected =
                                 @ + Cardinality(EntriesNaming(call'.args[1], k))]
              /\ call'.ret = WithAgent(call'.args[1])
      ]_vars

(* events imported after issues: FG, named twice by each list next to an
   entry with an empty agent, holds two claims, two errors and two
   mentions, none acknowledged *)
C20_Witness ==
    /\ call.op = "import_mentionguard_data"
    /\ Len(call.args[1]) = 3
    /\ call.ret = 2
    /\ <<"F", "G">> \in DOMAIN agents
    /\ agents[<<"F", "G">>].mentions_received = 2
    /\ agents[<<"F", "G">>].mentions_acknowledged = 0
    /\ agents[<<"F", "G">>].total_claims = 2
    /\ agents[<<"F", "G">>].errors_detected = 2
    /\ agents[<<"F", "G">>].correct_claims = 0

---------------------------------------------------------------------------
(* import_postmortem_data with grades that are whole numbers and grades
   with one decimal, on a table that earlier imports have filled *)

GradeValues == { FromInt(85), FromInt(100), Rat(646, 10), Rat(12, 10) }

ClaimValues == { 10, 250, 500 }

GradeInputs ==
    { << [agent |-> a, grade |-> g, claims_made |-> c] >> :
          a \in {Some(<<"f", "G">>), None}, g \in GradeValues, c \in ClaimValues }
    \cup
    { << [agent |-> Some(<<"f", "G">>), grade |-> FromInt(90), claims_made |-> 10],
         [agent |-> Some(<<"a", "t">>), grade |-> FromInt(80), claims_made |-> 5] >>,
      << [agent |-> Some(<<"F", "G">>), grade |-> FromInt(33), claims_made |-> 7],
         [agent |-> Some(<<>>), grade |-> FromInt(100), claims_made |-> 10],
         [agent |-> Some(<<"f", "G">>), grade |-> FromInt(0), claims_made |-> 0] >> }

NextGrades ==
    /\ ops < MaxOps
    /\ \E grades \in GradeInputs : ImportPostmortem(grades)

SpecGrades == Init /\ [][NextGrades]_vars

(* every entry has 0 <= grade <= 100 and claims_made >= 0 *)
GradesInRange(grades) ==
    \A i \in DOMAIN grades :
        /\ RLeq(FromInt(0), grades[i].grade)
        /\ RLeq(grades[i].grade, FromInt(100))
        /\ grades[i].claims_made >= 0

(* the sum of claims_made over the entries naming k *)
RECURSIVE ClaimsNaming(_, _)
ClaimsNaming(grades, k) ==
    IF grades = <<>> THEN 0
    ELSE (IF 1 \in EntriesNaming(grades, k) THEN grades[1].claims_made ELSE 0)
         + ClaimsNaming(Tail(grades), k)

(* the sum of floor(claims_made * grade / 100) over the entries naming k *)
RECURSIVE FloorsNaming(_, _)
FloorsNaming(grades, k) ==
    IF grades = <<>> THEN 0
    ELSE (IF 1 \in EntriesNaming(grades, k)
          THEN (grades[1].claims_made * grades[1].grade[1])
                   \div (100 * grades[1].grade[2])
          ELSE 0)
         + FloorsNaming(Tail(grades), k)

(* C21: over an import_postmortem_data call whose entries have
   0 <= grade <= 100 and claims_made >= 0, total_claims of an agent grows by
   the claims_made of its entries and correct_claims by
   floor(claims_made * grade / 100) of each, which is never more than what
   total_claims grows by; the count returned is the number of entries with
   an agent *)
C21_PostmortemAddsFloor ==
    [][(call'.op = "import_postmortem_data" /\ GradesInRange(call'.args[1])) =>
           /\ \A k \in DOMAIN agents' :
                  /\ agents'[k].total_claims =
                         Before(k).total_claims + ClaimsNaming(call'.args[1], k)
                  /\ agents'[k].correct_claims =
                         Before(k).correct_claims + FloorsNaming(call'.args[1], k)
                  /\ agents'[k].correct_claims - Before(k).correct_claims
                         <= agents'[k].total_claims - Before(k).total_claims
           /\ call'.ret = WithAgent(call'.args[1])
      ]_vars

---------------------------------------------------------------------------
(* Persistence: the constructor with auto_load=True on a data directory that
   holds a monitor_data.json.  A file is [exists, valid, doc]: valid says
   whether json.load accepts the text, and doc is the document.  A JSON value
   whose type matters carries it as its shape or kind *)

(* AgentStatus.from_dict(agent_data) on what json.load returned:
   [raised, agent], raised naming the exception or "" *)
LoadedAgent(value) ==
    IF value.shape # "dict" THEN [raised |-> "TypeError", agent |-> None]
    ELSE IF "name" \notin DOMAIN value.data
    THEN [raised |-> "KeyError", agent |-> None]
    ELSE IF "last_seen" \notin DOMAIN value.data \/ value.data["last_seen"].kind = "null"
    THEN [raised |-> "",
          agent  |-> Some(AgentStatus_from_dict([value.data EXCEPT !["last_seen"] = None]))]
    ELSE IF value.data["last_seen"].kind = "iso"
    THEN [raised |-> "",
          agent  |-> Some(AgentStatus_from_dict(
                         [value.data EXCEPT !["last_seen"] = Some(@.text)]))]
    ELSE IF value.data["last_seen"].kind = "text"
    THEN [raised |-> "ValueError", agent |-> None]
    ELSE [raised |-> "TypeError", agent |-> None]

(* self.agents[name] = ... : the key is the key of the file, as it is *)
StoreLoaded(tbl, name, loaded) ==
    IF loaded.raised # "" THEN [tbl EXCEPT !.raised = loaded.raised]
    ELSE [ agents |-> [ k \in DOMAIN tbl.agents \cup {name} |->
                          IF k = name THEN loaded.agent[1] ELSE tbl.agents[k] ],
           keys   |-> IF name \in DOMAIN tbl.agents THEN tbl.keys
                      ELSE Append(tbl.keys, name),
           raised |-> "" ]

(* for name, agent_data in data.get('agents', {}).items(): ... , up to the
   first exception *)
RECURSIVE LoadAgents(_, _)
LoadAgents(tbl, items) ==
    IF items = <<>> \/ tbl.raised # "" THEN tbl
    ELSE LoadAgents(StoreLoaded(tbl, items[1][1], LoadedAgent(items[1][2])),
                    Tail(items))

(* the first part of the try block: the agents *)
LoadedAgents(doc) ==
    IF doc.shape # "dict" THEN [agents |-> <<>>, keys |-> <<>>, raised |-> "AttributeError"]
    ELSE IF doc.agents = None THEN [agents |-> <<>>, keys |-> <<>>, raised |-> ""]
    ELSE IF doc.agents[1].shape # "dict"
    THEN [agents |-> <<>>, keys |-> <<>>, raised |-> "AttributeError"]
    ELSE LoadAgents([agents |-> <<>>, keys |-> <<>>, raised |-> ""], doc.agents[1].items)

(* the second part: if 'thresholds' in data: Thresholds.from_dict(...) *)
LoadedThresholds(th, doc, tbl) ==
    IF tbl.raised # "" \/ doc.thresholds = None
    THEN [agents |-> tbl.agents, keys |-> tbl.keys, thresholds |-> th,
          raised |-> tbl.raised]
    ELSE IF doc.thresholds[1].shape # "dict"
    THEN [agents |-> tbl.agents, keys |-> tbl.keys, thresholds |-> th,
          raised |-> "AttributeError"]
    ELSE [agents |-> tbl.agents, keys |-> tbl.keys,
          thresholds |-> Thresholds_from_dict(doc.thresholds[1].data),
          raised |-> ""]

(* except (json.JSONDecodeError, KeyError): a warning; any other exception
   leaves _load_data and the constructor *)
Outcome(r) ==
    [ agents |-> r.agents, keys |-> r.keys, thresholds |-> r.thresholds,
      ret    |-> IF r.raised = "" THEN "loaded"
                 ELSE IF r.raised \in {"JSONDecodeError", "KeyError"} THEN "warning"
                 ELSE r.raised ]

(* _load_data on a monitor just constructed with thresholds th *)
load_data(th, file) ==
    IF ~file.exists
    THEN [agents |-> <<>>, keys |-> <<>>, thresholds |-> th, ret |-> "loaded"]
    ELSE IF ~file.valid
    THEN [agents |-> <<>>, keys |-> <<>>, thresholds |-> th, ret |-> "warning"]
    ELSE Outcome(LoadedThresholds(th, file.doc, LoadedAgents(file.doc)))

(* json.dump of agent.to_dict(), as save() writes it *)
SavedAgent(agent) ==
    [ shape |-> "dict",
      data  |-> [ AgentStatus_to_dict(agent) EXCEPT
                      !["last_seen"] = IF @ = None THEN [kind |-> "null", text |-> None]
                                       ELSE [kind |-> "iso", text |-> @[1]] ] ]

(* agent entries json.load can return that from_dict does not take *)
BadEntries ==
    { [shape |-> "dict", data |-> [mentions_received |-> 1]],
      [shape |-> "dict",
       data  |-> [name |-> <<"F", "G">>, last_seen |-> [kind |-> "text", text |-> None]]],
      [shape |-> "dict",
       data  |-> [name |-> <<"F", "G">>, last_seen |-> [kind |-> "number", text |-> None]]],
      [shape |-> "str", data |-> <<>>],
      [shape |-> "list", data |-> <<>>] }

GoodEntries ==
    { SavedAgent([AgentStatus(<<"A", "T">>) EXCEPT !.last_seen = Some(3601),
                                                   !.is_active = TRUE,
                                                   !.mentions_received = 3]),
      SavedAgent(AgentStatus(<<"A", "T">>)),
      [shape |-> "dict", data |-> [name |-> <<"A", "T">>]] }

SavedThresholds ==
    { None,
      Some([shape |-> "dict", data |-> Thresholds_to_dict(SwappedThresholds)]),
      Some([shape |-> "dict", data |-> [latency_warning |-> 15, unknown |-> 1]]),
      Some([shape |-> "number", data |-> <<>>]) }

Document(items, th) ==
    [ exists |-> TRUE, valid |-> TRUE,
      doc    |-> [ shape      |-> "dict",
                   agents     |-> Some([shape |-> "dict", items |-> items]),
                   thresholds |-> th ] ]

(* the contents of monitor_data.json *)
LoadFiles ==
    { [exists |-> FALSE, valid |-> FALSE, doc |-> None],
      [exists |-> TRUE, valid |-> FALSE, doc |-> None],
      [exists |-> TRUE, valid |-> TRUE,
       doc |-> [shape |-> "list", agents |-> None, thresholds |-> None]],
      [exists |-> TRUE, valid |-> TRUE,
       doc |-> [shape |-> "dict", agents |-> Some([shape |-> "list", items |-> <<>>]),
                thresholds |-> Some([shape |-> "dict",
                                     data  |-> Thresholds_to_dict(SwappedThresholds)])]] }
    \cup { Document(<< <<<<"A", "T">>, good>> >>, th) :
               good \in GoodEntries, th \in SavedThresholds }
    \cup { Document(<< <<<<"A", "T">>, good>>, <<<<"F", "G">>, bad>>,
                       <<<<"C", "Z">>, good>> >>,
                    Some([shape |-> "dict",
                          data  |-> Thresholds_to_dict(SwappedThresholds)])) :
               good \in GoodEntries, bad \in BadEntries }

(* TeamCoherenceMonitor(data_dir=d) on a directory holding file: the
   attributes set before "if auto_load:", then _load_data; ret is "loaded",
   "warning" or the exception that leaves the constructor *)
Load(file) ==
    \E r \in { load_data(DefaultThresholds, file) } :
        /\ agents' = r.agents
        /\ agent_keys' = r.keys
        /\ thresholds' = r.thresholds
        /\ active_alerts' = <<>>
        /\ alert_history' = <<>>
        /\ snapshots' = <<>>
        /\ call' = Call("__init__", <<file>>, r.ret)
        /\ peak' = Observe(<<>>, r.agents)
        /\ ops' = ops + 1
        /\ UNCHANGED <<now, next_id>>

(* there is a monitor: the last constructor call returned *)
Usable == call.op = "__init__" /\ call.args # <<>> => call.ret \in {"loaded", "warning"}

NextLoad ==
    /\ ops < MaxOps
    /\ \/ \E file \in LoadFiles : Load(file)
       \/ /\ Usable
          /\ \/ \E b \in BOOLEAN : RecordMention(<<"a", "t">>, b)
             \/ GetCoherenceScore
             \/ \E d \in TickSteps : Tick(d)

SpecLoad == Init /\ [][NextLoad]_vars

(* an agent entry that from_dict does not take: no dict, no 'name', or a
   last_seen that is no ISO-8601 text *)
BadEntry(value) ==
    \/ value.shape # "dict"
    \/ "name" \notin DOMAIN value.data
    \/ /\ "last_seen" \in DOMAIN value.data
       /\ value.data["last_seen"].kind \in {"text", "number"}

(* the entries of the file in front of its first bad entry *)
EntriesBeforeBad(items) ==
    { i \in DOMAIN items : \A j \in 1..i : ~BadEntry(items[j][2]) }

(* a file that is invalid JSON, or whose 'agents' is no dict, or that holds a
   bad agent entry *)
Malformed(file) ==
    /\ file.exists
    /\ \/ ~file.valid
       \/ /\ file.doc.shape = "dict"
          /\ file.doc.agents # None
          /\ \/ file.doc.agents[1].shape # "dict"
             \/ \E i \in DOMAIN file.doc.agents[1].items :
                    BadEntry(file.doc.agents[1].items[i][2])

LoadedItems(file) ==
    IF file.valid /\ file.doc.agents[1].shape = "dict"
    THEN file.doc.agents[1].items ELSE <<>>

(* C22: the constructor on a malformed monitor_data.json (invalid JSON, an
   agent entry without 'name', an agent entry whose last_seen is no ISO-8601
   text, an 'agents' or an agent value of the wrong shape) ends in a warning,
   with the agents in front of the bad entry loaded and the default
   thresholds *)
C22_MalformedLoadWarns ==
    (call.op = "__init__" /\ call.args # <<>> /\ Malformed(call.args[1])) =>
        /\ call.ret = "warning"
        /\ thresholds = DefaultThresholds
        /\ DOMAIN agents =
               { LoadedItems(call.args[1])[i][1] :
                     i \in EntriesBeforeBad(LoadedItems(call.args[1])) }

---------------------------------------------------------------------------
(* The active set against the history, under SpecHistory *)

(* C23: in every reachable state every alert of the active set is in the
   alert history, however many alerts are generated within one hour *)
C23_ActiveWithinHistory ==
    \A i \in DOMAIN active_alerts :
        \E j \in DOMAIN alert_history : alert_history[j].id = active_alerts[i].id

---------------------------------------------------------------------------
(* A long run of check_all_alerts through the facade: one agent misses its
   only mention, so every call raises an ack_rate alert and a team alert;
   half an hour and a second pass after each call.  At the start of the run
   calls also follow each other directly and clear_alerts, get_alerts and
   take_snapshot come in between; where the history reaches its cap, calls
   follow each other directly and clear_alerts comes in between *)

HalfWindow == ACTIVE_WINDOW \div 2 + 1

ChecksMade == next_id \div 2

(* the calls so far that are neither a check nor a wait *)
SideCalls == ops - 1 - ChecksMade - now \div HalfWindow

NearStart == next_id <= 4

NearEnd == next_id >= MAX_HISTORY - 2

AgentFilters == { None, Some(<<"F", "G">>), Some(<<"f", "G">>) }

NextAlertRun ==
    \/ /\ agents = <<>>
       /\ RecordMention(<<"f", "G">>, FALSE)
    \/ /\ agents # <<>>
       /\ next_id < MAX_HISTORY + 2 * MaxOverflow
       /\ \/ NearStart
          \/ NearEnd
          \/ SideCalls = 0 /\ now = HalfWindow * ChecksMade
       /\ CheckAllAlerts
    \/ /\ call.op = "check_all_alerts"
       /\ Tick(HalfWindow)
    \/ /\ agents # <<>>
       /\ NearStart
       /\ SideCalls < MaxOps
       /\ \/ \E agent \in AgentFilters : ClearAlerts(agent, None)
          \/ GetAlerts(None)
          \/ TakeSnapshot
    \/ /\ NearEnd
       /\ SideCalls < MaxOps
       /\ ClearAlerts(Some(<<"F", "G">>), None)

SpecAlertRun == Init /\ [][NextAlertRun]_vars

(* the place in the history of the alert with this id: the history holds
   consecutive ids *)
PlaceOf(history, id) == id - history[1].id + 1

(* alert a, with its fields, is an entry of the history *)
InHistory(history, a) ==
    /\ history # <<>>
    /\ PlaceOf(history, a.id) \in DOMAIN history
    /\ history[PlaceOf(history, a.id)] = a

(* alert a was created before this step *)
Existing(a) == a.id <= next_id

(* C24: over every step of the facade (check_all_alerts, clear_alerts,
   get_alerts, take_snapshot, time passing) an alert of the active set after
   the step that existed before the step was in the active set before it,
   with the same fields, and likewise for the history: an alert that has
   left a list does not come back; an alert listed as active and in the
   history has the same fields in both *)
C24_NoAlertResurrected ==
    /\ [](\A i \in DOMAIN active_alerts :
             (alert_history # <<>>
              /\ PlaceOf(alert_history, active_alerts[i].id) \in DOMAIN alert_history)
                 => InHistory(alert_history, active_alerts[i]))
    /\ [][/\ \A i \in DOMAIN active_alerts' :
                 Existing(active_alerts'[i]) =>
                     \E j \in DOMAIN active_alerts :
                         active_alerts[j] = active_alerts'[i]
          /\ \A i \in DOMAIN alert_history' :
                 Existing(alert_history'[i]) =>
                     InHistory(alert_history, alert_history'[i])
         ]_vars

(* a check after the history overflowed and after alerts were cleared: the
   oldest alerts have left the history, and alerts of the history that are
   younger than an hour are not active *)
C24_Witness ==
    /\ call.op = "check_all_alerts"
    /\ Len(alert_history) = MAX_HISTORY
    /\ alert_history[1].id > 1
    /\ \E i \in DOMAIN alert_history :
           /\ alert_history[i].timestamp > now - ACTIVE_WINDOW
           /\ \A j \in DOMAIN active_alerts :
                  active_alerts[j].id # alert_history[i].id

---------------------------------------------------------------------------
(* The guards of check_agent, under SpecThresholds *)

(* check_agent returns an alert on this metric for the record *)
Raises(agent, metric) ==
    \E i \in DOMAIN check_agent(thresholds, agent, now) :
        check_agent(thresholds, agent, now)[i].metric = metric

(* the record holds the signal that the metric is computed from *)
SignalPresent(agent, metric) ==
    CASE metric = "ack_rate" -> agent.mentions_received # 0
      [] metric = "latency"  -> /\ agent.response_latencies # <<>>
                                /\ SumSeq(agent.response_latencies) > 0
      [] metric = "fidelity" -> agent.total_claims # 0
      [] metric = "activity" -> agent.last_seen # None

(* C25: check_agent raises no ack_rate alert for a record with
   mentions_received = 0, no latency alert for one whose average latency is
   <= 0 (no latencies, or a non-positive sum), no fidelity alert for one with
   total_claims = 0 and no activity alert for one never seen; a record as
   register_agent creates it raises no alert and scores 85, its activity
   score being 0; the agent alerts check_all_alerts returns are on metrics
   whose signal the record holds *)
C25_AlertsNeedTheirSignal ==
    /\ \A k \in DOMAIN agents : \A metric \in AgentMetrics :
           Raises(agents[k], metric) => SignalPresent(agents[k], metric)
    /\ \A k \in DOMAIN agents :
           agents[k] = FreshRecord(k) =>
               /\ check_agent(thresholds, agents[k], now) = <<>>
               /\ calculate_agent_score(thresholds, agents[k], now) = FromInt(85)
    /\ call.op = "check_all_alerts" =>
           \A i \in DOMAIN call.ret :
               call.ret[i].agent # None =>
                   SignalPresent(agents[call.ret[i].agent[1]], call.ret[i].metric)

(* check_all_alerts an hour after register_agent left a fresh record: no
   alert for it, none for the team *)
C25_Witness ==
    /\ call.op = "check_all_alerts"
    /\ call.ret = <<>>
    /\ now > ACTIVE_WINDOW
    /\ <<"F", "G">> \in DOMAIN agents
    /\ agents[<<"F", "G">>] = FreshRecord(<<"F", "G">>)

(* check_all_alerts returned an activity alert only, for an agent whose
   latencies are all negative and who made no claim and got no mention *)
C25_WitnessSilent ==
    /\ call.op = "check_all_alerts"
    /\ <<"F", "G">> \in DOMAIN agents
    /\ agents[<<"F", "G">>].response_latencies = <<-1>>
    /\ \E i \in DOMAIN call.ret : call.ret[i].metric = "activity"
    /\ \A i \in DOMAIN call.ret : call.ret[i].metric \in {"activity", "coherence"}

---------------------------------------------------------------------------
(* The trend at its edges: one agent is judged on ClaimsMade claims, then
   receives up to MentionsMade mentions while up to MaxSamples snapshots are
   taken, 150 seconds apart at times, and get_trend is asked for windows of
   2 and of 30 minutes *)

ClaimsMade == 7

MentionsMade == 3

MaxSamples == 3

Judged == IF agents = <<>> THEN 0 ELSE agents[<<"F", "G">>].total_claims

Mentioned == IF agents = <<>> THEN 0 ELSE agents[<<"F", "G">>].mentions_received

NextTrendEdge ==
    \/ /\ Judged < ClaimsMade
       /\ \E b \in BOOLEAN : RecordClaim(<<"f", "G">>, b)
    \/ /\ Judged = ClaimsMade
       /\ Mentioned < MentionsMade
       /\ \E b \in BOOLEAN : RecordMention(<<"f", "G">>, b)
    \/ /\ Judged = ClaimsMade
       /\ Len(snapshots) < MaxSamples
       /\ call.op # "take_snapshot"
       /\ TakeSnapshot
    \/ /\ call.op = "take_snapshot"
       /\ Len(snapshots) < MaxSamples
       /\ Tick(150)
    \/ /\ snapshots # <<>>
       /\ call.op \in {"take_snapshot", "record_mention"}
       /\ \E w \in TrendWindows : GetTrend(w)

SpecTrendEdge == Init /\ [][NextTrendEdge]_vars

(* the scores of the qualifying snapshots, oldest first *)
QualifyingScores(minutes) ==
    [i \in 1..Cardinality(Qualifying(minutes)) |->
        snapshots[Len(snapshots) - Cardinality(Qualifying(minutes)) + i].overall_score]

FirstHalf(scores) == SubSeq(scores, 1, Len(scores) \div 2)

SecondHalf(scores) == SubSeq(scores, Len(scores) \div 2 + 1, Len(scores))

(* mean(second half) - mean(first half) *)
MeanChange(scores) == RSub(MeanRats(SecondHalf(scores)), MeanRats(FirstHalf(scores)))

(* C26: when k >= 2 snapshots qualify, get_trend returns IMPROVING iff
   mean(last k - floor(k/2) scores) - mean(first floor(k/2) scores) > 5,
   DEGRADING iff it is < -5 and STABLE otherwise, samples = k, min_score and
   max_score the least and the greatest of the k scores and
   min_score <= avg_score <= max_score *)
C26_TrendByHalves ==
    (call.op = "get_trend" /\ Cardinality(Qualifying(call.args[1])) >= 2) =>
        /\ call.ret.trend = LabelOfChange(MeanChange(QualifyingScores(call.args[1])))
        /\ call.ret.samples = Cardinality(Qualifying(call.args[1]))
        /\ \A i \in DOMAIN QualifyingScores(call.args[1]) :
               /\ RLeq(call.ret.min_score, QualifyingScores(call.args[1])[i])
               /\ RLeq(QualifyingScores(call.args[1])[i], call.ret.max_score)
        /\ RLeq(call.ret.min_score, call.ret.avg_score)
        /\ RLeq(call.ret.avg_score, call.ret.max_score)

---------------------------------------------------------------------------
(* Reading: the scoring, alert evaluation and read calls, made between a few
   recordings and waits *)

GetAgentScores ==
    ReadCall("get_agent_scores", <<>>,
             get_agent_scores(thresholds, agents, agent_keys, now))

(* AlertSystem.check_agent(agent) called on a registered record *)
CheckAgent(k) ==
    ReadCall("check_agent", <<k>>, check_agent(thresholds, agents[k], now))

(* whether the list get_active_alerts returns is the active_alerts list
   itself: the comprehension builds a new list and so does .copy() *)
SharesActiveList(severity) ==
    IF severity # None /\ severity[1] # "" THEN FALSE ELSE FALSE

(* the caller deletes the first element of the list get_alerts returned *)
MutateReturned ==
    /\ call.op = "get_alerts"
    /\ call.ret # <<>>
    /\ call' = Call("del returned[0]", call.args, Tail(call.ret))
    /\ active_alerts' = IF SharesActiveList(call.args[1]) THEN Tail(call.ret)
                        ELSE active_alerts
    /\ ops' = ops + 1
    /\ UNCHANGED <<agents, agent_keys, thresholds, alert_history, snapshots, now,
                   next_id, peak>>

NextReads ==
    /\ ops < MaxSteps
    /\ \/ RecordMention(<<"f", "G">>, FALSE)
       \/ RecordResponse(<<"a", "t">>, 70)
       \/ Tick(3601)
       \/ GetCoherenceScore
       \/ GetAgentScores
       \/ \E n \in RecordNames : GetAgentMetrics(n)
       \/ GetTrend(30)
       \/ \E sev \in SeverityFilters : GetAlerts(sev)
       \/ TakeSnapshot
       \/ CheckAllAlerts
       \/ ExportData
       \/ \E k \in DOMAIN agents : CheckAgent(k)
       \/ CheckTeamCoherence(FromInt(40))
       \/ MutateReturned

SpecReads == Init /\ [][NextReads]_vars

ReadOps ==
    { "get_coherence_score", "get_agent_scores", "get_agent_metrics", "get_trend",
      "get_alerts", "take_snapshot", "check_all_alerts", "export_data",
      "check_agent", "check_team_coherence" }

(* C27: get_coherence_score, get_agent_scores, get_agent_metrics, get_trend,
   get_alerts, take_snapshot, check_all_alerts, export_data, check_agent and
   check_team_coherence leave every agent record and the set of registered
   agents as they were; check_agent and check_team_coherence also leave the
   active alerts and the alert history as they were, and so does a deletion
   from the list that get_alerts returned *)
C27_ReadsLeaveRecords ==
    [][ /\ call'.op \in ReadOps =>
               /\ agents' = agents
               /\ agent_keys' = agent_keys
        /\ call'.op \in {"check_agent", "check_team_coherence", "del returned[0]"} =>
               /\ active_alerts' = active_alerts
               /\ alert_history' = alert_history ]_vars

(* the list get_alerts returned lost its first alert while an agent alert
   and a team alert are active and both agents are registered *)
C27_Witness ==
    /\ call.op = "del returned[0]"
    /\ Len(call.ret) < Len(active_alerts)
    /\ Len(agent_keys) = 2

---------------------------------------------------------------------------
(* check_all_alerts called again and again, under SpecReads *)

(* the two alerts report the same condition *)
SameCondition(a, b) ==
    a.agent = b.agent /\ a.metric = b.metric /\ a.severity = b.severity

(* the number of alerts of the list that report the condition of a *)
CountOf(list, a) == Cardinality({ i \in DOMAIN list : SameCondition(list[i], a) })

(* the active alerts raised less than an hour before the time t *)
WithinHour(list, t) ==
    LET Young(a) == a.timestamp > t - ACTIVE_WINDOW
    IN  SelectSeq(list, Young)

(* C28: a check_all_alerts call returns one alert for each alert that
   check_agent gives for a registered agent plus the one that
   check_team_coherence gives for the team score, each of them a new alert
   with the time of the call; the returned alerts are the end of the active
   list and the end of the history after the call, and the active alerts
   reporting the condition of a returned alert are one more than those less
   than an hour old before the call, whether or not there were any *)
C28_NoDeduplication ==
    [][ call'.op = "check_all_alerts" =>
          /\ Len(call'.ret) =
                 Len(AgentAlerts(thresholds, agents, agent_keys, now))
                 + Len(check_team_coherence(
                           thresholds,
                           get_coherence_score(thresholds, agents, agent_keys, now), now))
          /\ \A i \in DOMAIN call'.ret :
                 /\ call'.ret[i].id > next_id
                 /\ call'.ret[i].timestamp = now
                 /\ \A j \in DOMAIN call'.ret : i # j => call'.ret[i].id # call'.ret[j].id
                 /\ CountOf(active_alerts', call'.ret[i])
                        = CountOf(WithinHour(active_alerts, now), call'.ret[i]) + 1
          /\ active_alerts' = WithinHour(active_alerts, now) \o call'.ret
          /\ Len(alert_history') >= Len(call'.ret)
          /\ SubSeq(alert_history', Len(alert_history') - Len(call'.ret) + 1,
                    Len(alert_history')) = call'.ret ]_vars

(* the third check_all_alerts call within the hour on an unacknowledged
   mention: three active alerts for the agent's ack_rate, three for the
   team score, the last of each returned by the call *)
C28_Witness ==
    /\ call.op = "check_all_alerts"
    /\ now < ACTIVE_WINDOW
    /\ \E i, j \in DOMAIN call.ret :
           /\ call.ret[i].agent # None
           /\ CountOf(active_alerts, call.ret[i]) = 3
           /\ call.ret[j].agent = None
           /\ CountOf(active_alerts, call.ret[j]) = 3

---------------------------------------------------------------------------
(* is_active, under Spec *)

(* the step unregisters the agent stored under k or resets the monitor *)
Removes(k) ==
    \/ call'.op = "reset"
    \/ call'.op = "unregister_agent" /\ upper(call'.args[1]) = k

(* check_agent gives a CRITICAL activity alert for the record *)
CriticallyIdle(agent) ==
    \E i \in DOMAIN check_agent(thresholds, agent, now) :
        /\ check_agent(thresholds, agent, now)[i].metric = "activity"
        /\ check_agent(thresholds, agent, now)[i].severity = "CRITICAL"

(* C29: an agent whose is_active is true keeps it true in every step that
   is neither unregister_agent for it nor reset(), whatever time passes and
   whatever alerts are raised; every snapshot has
   0 <= active_agents <= total_agents, and the snapshot take_snapshot
   returns has total_agents equal to the size of the agent table and
   active_agents equal to the number of records with is_active true *)
C29_ActiveFlagSticks ==
    /\ [](/\ \A i \in DOMAIN snapshots :
                /\ 0 <= snapshots[i].active_agents
                /\ snapshots[i].active_agents <= snapshots[i].total_agents
          /\ call.op = "take_snapshot" =>
                /\ call.ret.total_agents = Cardinality(DOMAIN agents)
                /\ call.ret.active_agents
                       = Cardinality({k \in DOMAIN agents : agents[k].is_active})
                /\ snapshots[Len(snapshots)] = call.ret)
    /\ [][ \A k \in DOMAIN agents :
               (agents[k].is_active /\ ~Removes(k)) =>
                   (k \in DOMAIN agents' /\ agents'[k].is_active) ]_vars

(* take_snapshot counted the agent as active while check_agent gives a
   CRITICAL activity alert for it *)
C29_Witness ==
    /\ call.op = "take_snapshot"
    /\ call.ret.active_agents = 1
    /\ \E k \in DOMAIN agents : agents[k].is_active /\ CriticallyIdle(agents[k])

---------------------------------------------------------------------------
(* The facade's clear_alerts(agent), under SpecAlertRun: the agent is
   registered by record_mention("fG") and check_all_alerts raises alerts for
   "FG" and for the team *)

(* the active alerts whose stored agent is not the name as given *)
NotOf(list, name) ==
    LET Other(a) == a.agent # Some(name)
    IN  SelectSeq(list, Other)

(* C30: clear_alerts(agent) with an agent name and no metric removes from
   the active list the alerts whose stored agent equals the name as given,
   and returns their number: with a name that upper() changes it removes
   nothing and returns 0, the stored names being upper-case; with the
   upper-case name of an agent it leaves no active alert of that agent; an
   active alert without an agent stays active *)
C30_ClearComparesNameAsGiven ==
    [][ (call'.op = "clear_alerts" /\ call'.args[1] # None /\ call'.args[2] = None) =>
          /\ active_alerts' = NotOf(active_alerts, call'.args[1][1])
          /\ call'.ret = Len(active_alerts) - Len(active_alerts')
          /\ upper(call'.args[1][1]) # call'.args[1][1] =>
                 /\ active_alerts' = active_alerts
                 /\ call'.ret = 0
          /\ call'.args[1][1] \in DOMAIN agents =>
                 \A i \in DOMAIN active_alerts' :
                     active_alerts'[i].agent # call'.args[1]
          /\ \A i \in DOMAIN active_alerts :
                 active_alerts[i].agent = None =>
                     \E j \in DOMAIN active_alerts' : active_alerts'[j] = active_alerts[i]
          /\ alert_history' = alert_history ]_vars

(* clear_alerts("fG") returned 0 and the alerts of FG are still active *)
C30_Witness ==
    /\ call.op = "clear_alerts"
    /\ call.args[1] = Some(<<"f", "G">>)
    /\ call.ret = 0
    /\ \E i \in DOMAIN active_alerts : active_alerts[i].agent = Some(<<"F", "G">>)

(* clear_alerts("FG") removed the alerts of FG and left the team alerts *)
C30_WitnessUpper ==
    /\ call.op = "clear_alerts"
    /\ call.args[1] = Some(<<"F", "G">>)
    /\ call.ret > 0
    /\ active_alerts # <<>>
    /\ \A i \in DOMAIN active_alerts : active_alerts[i].agent = None
====
